---- MODULE Spec2Model ----
(***************************************************************************)
(* A state-machine model of the Zrata-X backend (backend/app): the request *)
(* handlers of the auth, portfolio and recommendation routers, the data    *)
(* acquisition services and the scheduled maintenance tasks.               *)
(*                                                                         *)
(* The relational store is one variable per table, each a sequence of rows *)
(* in insertion order (ids are autoincrement, rows are never reordered).   *)
(* Time is a clock in whole days.  Every handler is one action.  Several   *)
(* specifications share the variables; each one runs the handlers of one   *)
(* subsystem and leaves the other tables alone.                            *)
(***************************************************************************)
EXTENDS Integers, Sequences, FiniteSets, TLC

VARIABLES
    now,        \* the clock, in days (datetime.utcnow() / the database's now())
    lastOp,     \* name of the handler or task that ran last
    resp,       \* what that handler returned (HTTP status and body, or task result)
    users,      \* table users
    issued,     \* access tokens handed out by register/login, with their owner
    memCalls,   \* number of calls made to the Supermemory service
    plans,      \* table investment_plans
    news,       \* table market_news
    allNews,    \* all_news of the last news refresh run
    uniqueNews, \* unique_news of the last news refresh run
    srcs,       \* table data_sources
    fdRates,    \* table fd_rates
    gold,       \* table gold_silver_prices
    macro,      \* table macro_indicators
    holdings,   \* table portfolio_holdings
    txns,       \* table transactions
    funds,      \* table mutual_funds
    etfs,       \* table etfs
    schemeName, \* the scheme name handed to the mutual-fund classifiers
    inflight    \* requests that have started and are not answered yet, by slot

vars == <<now, lastOp, resp, users, issued, memCalls, plans, news, allNews,
          uniqueNews, srcs, fdRates, gold, macro, holdings, txns, funds, etfs,
          schemeName, inflight>>

apiVars    == <<users, issued, memCalls, plans>>
newsVars   == <<news, allNews, uniqueNews>>
fdVars     == <<srcs, fdRates>>
marketVars == <<gold, macro>>
folioVars  == <<holdings, txns>>
assetVars  == <<funds, etfs>>

----------------------------------------------------------------------------
(* Bounds of the model.                                                    *)

MaxUsers     == 2   \* rows of users
MaxPlans     == 2   \* rows of investment_plans
MaxTokens    == 1   \* access tokens the clients hold at one time
MaxMemCalls  == 3   \* calls to the memory service
MaxClock     == 8   \* days the account specification runs for
MaxPlanClock == 2   \* days the recommendation specification runs for

----------------------------------------------------------------------------
(* Generic helpers.                                                        *)

None == <<>>
Some(v) == <<v>>

Range(s) == {s[i] : i \in DOMAIN s}

RECURSIVE SumSeq(_)
SumSeq(s) == IF s = <<>> THEN 0 ELSE Head(s) + SumSeq(Tail(s))

IsPrefix(s, t) == Len(s) <= Len(t) /\ SubSeq(t, 1, Len(s)) = s

\* every table outside the user-facing API, and the requests in flight
BackgroundTables == <<news, allNews, uniqueNews, srcs, fdRates, gold, macro,
                      holdings, txns, funds, etfs, schemeName, inflight>>

\* a day passes
Tick(limit) ==
    /\ now < limit
    /\ now' = now + 1
    /\ lastOp' = "tick"
    /\ resp' = [status |-> 0]
    /\ UNCHANGED <<apiVars, BackgroundTables>>

----------------------------------------------------------------------------
(* routers/auth.py                                                         *)

Emails    == {"a@x.in", "b@x.in"}
Passwords == {"password1", "password2"}
Risks     == {"moderate", "high"}

\* the registration form each address is registered with
SignupForm(email) ==
    IF email = "a@x.in"
    THEN [full_name |-> "Asha", risk_tolerance |-> "moderate"]
    ELSE [full_name |-> "Bala", risk_tolerance |-> "high"]

SecretKey == "SECRET_KEY"

\* settings.ACCESS_TOKEN_EXPIRE_MINUTES = 60 * 24 * 7, in days
AccessTokenExpireDays == 7

\* pwd_context.hash / pwd_context.verify (bcrypt): verify accepts exactly the
\* password that was hashed
get_password_hash(password) == <<"bcrypt", password>>
verify_password(plain, hashed) == hashed = get_password_hash(plain)

\* A JWT: the subject claim as Python holds it (absent, an int, a str of
\* digits, any other str), the exp claim, and the key that signed it.
SubInt(n)  == [t |-> "int", v |-> n]
SubStr(n)  == [t |-> "str", v |-> n]
SubNone    == [t |-> "none", v |-> 0]
SubText    == [t |-> "text", v |-> 0]

\* create_access_token(data={"sub": user.id}): the subject is the integer id
create_access_token(user_id) ==
    [sub |-> SubInt(user_id), exp |-> now + AccessTokenExpireDays, key |-> SecretKey]

\* jose.jwt.decode(token, SECRET_KEY, algorithms=["HS256"]): the signature is
\* verified, then the claims: an exp in the past raises ExpiredSignatureError
\* and a sub that is present and not a str raises JWTClaimsError ("Subject
\* must be a string"); both are JWTError.
jwt_decode(token) ==
    IF token.key # SecretKey THEN "JWTError"
    ELSE IF token.exp < now THEN "JWTError"
    ELSE IF token.sub.t = "int" THEN "JWTError"
    ELSE "ok"

UserById(id) ==
    IF \E i \in DOMAIN users : users[i].id = id
    THEN Some(CHOOSE u \in Range(users) : u.id = id)
    ELSE None

UserByEmail(email) ==
    IF \E i \in DOMAIN users : users[i].email = email
    THEN Some(CHOOSE u \in Range(users) : u.email = email)
    ELSE None

\* UserResponse.model_validate(user)
UserResponse(u) ==
    [id |-> u.id, email |-> u.email, full_name |-> u.full_name,
     risk_tolerance |-> u.risk_tolerance]

\* a mutant: the inactive-account check is dropped
get_current_user_no_active_check(token) ==
    IF jwt_decode(token) # "ok" THEN [status |-> 401, user |-> None]
    ELSE IF token.sub.t = "none" THEN [status |-> 401, user |-> None]
    ELSE IF token.sub.t = "text" THEN [status |-> 500, user |-> None]
    ELSE IF UserById(token.sub.v) = None THEN [status |-> 401, user |-> None]
    ELSE [status |-> 200, user |-> UserById(token.sub.v)]

\* get_current_user: 401 on JWTError and on a missing subject; TokenData
\* coerces a str of digits to the int id and fails validation (an unhandled
\* error, 500) on any other str; 401 on an unknown id; 400 on an inactive user.
get_current_user(token) ==
    IF jwt_decode(token) # "ok" THEN [status |-> 401, user |-> None]
    ELSE IF token.sub.t = "none" THEN [status |-> 401, user |-> None]
    ELSE IF token.sub.t = "text" THEN [status |-> 500, user |-> None]
    ELSE IF UserById(token.sub.v) = None THEN [status |-> 401, user |-> None]
    ELSE IF ~ UserById(token.sub.v)[1].is_active THEN [status |-> 400, user |-> None]
    ELSE [status |-> 200, user |-> UserById(token.sub.v)]

\* POST /auth/register
Register(email, password, full_name, risk) ==
    /\ lastOp' = "register"
    /\ IF UserByEmail(email) # None
       THEN /\ resp' = [status |-> 400, token |-> None, user |-> None]
            /\ UNCHANGED apiVars
       ELSE /\ Len(users) < MaxUsers
            /\ Cardinality(issued) < MaxTokens
            /\ memCalls < MaxMemCalls
            /\ LET user == [id |-> Len(users) + 1, email |-> email,
                            hashed_password |-> get_password_hash(password),
                            full_name |-> full_name, risk_tolerance |-> risk,
                            is_active |-> TRUE]
                   token == create_access_token(user.id)
               IN /\ users' = Append(users, user)
                  /\ memCalls' = memCalls + 1
                  /\ issued' = issued \cup {[token |-> token, uid |-> user.id]}
                  /\ resp' = [status |-> 200, token |-> Some(token),
                              user |-> Some(UserResponse(user))]
            /\ UNCHANGED plans
    /\ UNCHANGED <<now, BackgroundTables>>

\* POST /auth/login
Login(username, password) ==
    /\ lastOp' = "login"
    /\ LET found == UserByEmail(username) IN
       IF found = None \/ ~ verify_password(password, found[1].hashed_password)
       THEN /\ resp' = [status |-> 401, token |-> None, user |-> None]
            /\ UNCHANGED issued
       ELSE IF ~ found[1].is_active
       THEN /\ resp' = [status |-> 400, token |-> None, user |-> None]
            /\ UNCHANGED issued
       ELSE /\ Cardinality(issued) < MaxTokens
            /\ LET token == create_access_token(found[1].id)
               IN /\ issued' = issued \cup {[token |-> token, uid |-> found[1].id]}
                  /\ resp' = [status |-> 200, token |-> Some(token),
                              user |-> Some(UserResponse(found[1]))]
    /\ UNCHANGED <<now, users, memCalls, plans, BackgroundTables>>

\* the bearer tokens a client can present: the ones the API handed out, and
\* any other token (signed with the secret or not, expired or not)
PresentedTokens ==
    {i.token : i \in issued} \cup
    [sub : {SubNone, SubText, SubInt(1), SubStr(1), SubStr(2), SubStr(MaxUsers + 1)},
     exp : {now - 1, now},
     key : {SecretKey}] \cup
    {[sub |-> SubStr(1), exp |-> now, key |-> "ANOTHER_KEY"]}

\* GET /auth/me: the dependency get_current_user, then the profile
GetMe(token) ==
    /\ lastOp' = "get_me"
    /\ LET cur == get_current_user(token) IN
       resp' = [status |-> cur.status, token |-> None,
                user |-> IF cur.user = None THEN None
                         ELSE Some(UserResponse(cur.user[1]))]
    /\ UNCHANGED <<now, apiVars, BackgroundTables>>

\* POST /auth/logout: the dependency, then an acknowledgement; the token is
\* not invalidated, the client discards it
Logout(token) ==
    /\ lastOp' = "logout"
    /\ resp' = [status |-> get_current_user(token).status, token |-> None, user |-> None]
    /\ issued' = {i \in issued : i.token # token}
    /\ UNCHANGED <<now, users, memCalls, plans, BackgroundTables>>

\* users.is_active is written by no handler; an operator clears it in the database
DeactivateUser(i) ==
    /\ users[i].is_active
    /\ users' = [users EXCEPT ![i].is_active = FALSE]
    /\ lastOp' = "deactivate"
    /\ resp' = [status |-> 0]
    /\ UNCHANGED <<now, issued, memCalls, plans, BackgroundTables>>

----------------------------------------------------------------------------
(* routers/recommendations.py                                              *)

\* InvestmentInput.amount / GuestInvestmentInput.amount: Field(gt=0, le=10000000);
\* 0 stands for an amount the schema rejects
Amounts == {0, 5000}
AmountValid(amount) == amount > 0 /\ amount <= 10000000

\* what the AI gateway does with one request: it answers with JSON that has
\* suggestions, it answers with text that does not parse (the client then
\* returns an error payload without suggestions), or the call raises
AiOutcomes == {"json", "unparsed", "raise"}

\* InvestmentPlan(...).expires_at = datetime.utcnow() + timedelta(days=7)
PlanValidDays == 7

\* a mutant: the plan is valid for 30 days
NewPlan_30_days(user_id, amount, risk, ai) ==
    [id |-> Len(plans) + 1, user_id |-> user_id, investment_amount |-> amount,
     risk_level_used |-> risk,
     recommendations |-> IF ai = "json" THEN "suggestions" ELSE "empty",
     status |-> "pending", created_at |-> now, expires_at |-> now + 30]

\* the InvestmentPlan row the handler adds: status takes the column default
\* "pending", created_at the server default now()
NewPlan(user_id, amount, risk, ai) ==
    [id |-> Len(plans) + 1, user_id |-> user_id, investment_amount |-> amount,
     risk_level_used |-> risk,
     recommendations |-> IF ai = "json" THEN "suggestions" ELSE "empty",
     status |-> "pending", created_at |-> now, expires_at |-> now + PlanValidDays]

NoPlanResponse(status) ==
    [status |-> status, user_id |-> 0, id |-> None, valid_until |-> None]

\* POST /recommend/invest
GetInvestmentRecommendation(user_id, amount, risk_override, ai) ==
    /\ lastOp' = "invest"
    /\ IF ~ AmountValid(amount)
       THEN /\ resp' = NoPlanResponse(422)
            /\ UNCHANGED <<memCalls, plans>>
       ELSE IF UserById(user_id) = None
       THEN /\ resp' = NoPlanResponse(404)
            /\ UNCHANGED <<memCalls, plans>>
       ELSE /\ memCalls < MaxMemCalls
            /\ memCalls' = memCalls + 1        \* memory_service.get_user_context
            /\ IF ai = "raise"
               THEN /\ resp' = NoPlanResponse(500)
                    /\ UNCHANGED plans
               ELSE /\ Len(plans) < MaxPlans
                    /\ LET user == UserById(user_id)[1]
                           risk == IF risk_override # "" THEN risk_override
                                   ELSE user.risk_tolerance
                           plan == NewPlan(user_id, amount, risk, ai)
                       IN /\ plans' = Append(plans, plan)
                          /\ resp' = [status |-> 200, user_id |-> user_id,
                                      id |-> Some(plan.id),
                                      valid_until |-> Some(plan.expires_at)]
    /\ UNCHANGED <<now, users, issued, BackgroundTables>>

\* a mutant: the guest flow stores its recommendation like the authenticated one
GetGuestRecommendation_persisting(amount, risk_profile, ai) ==
    /\ lastOp' = "guest"
    /\ AmountValid(amount) /\ ai # "raise" /\ Len(plans) < MaxPlans
    /\ plans' = Append(plans, NewPlan(0, amount, risk_profile, ai))
    /\ resp' = NoPlanResponse(200)
    /\ UNCHANGED <<now, users, issued, memCalls, BackgroundTables>>

\* POST /recommend/invest/guest
GetGuestRecommendation(amount, risk_profile, ai) ==
    /\ lastOp' = "guest"
    /\ resp' = IF ~ AmountValid(amount) THEN NoPlanResponse(422)
               ELSE IF ai = "raise" THEN NoPlanResponse(500)
               ELSE NoPlanResponse(200)
    /\ UNCHANGED <<now, apiVars, BackgroundTables>>

----------------------------------------------------------------------------
(* The start of every table, and the specification of the user-facing API. *)

ApiStart ==
    /\ users = <<>> /\ issued = {} /\ memCalls = 0 /\ plans = <<>>

BackgroundStart ==
    /\ news = <<>> /\ allNews = <<>> /\ uniqueNews = <<>>
    /\ srcs = <<>> /\ fdRates = <<>>
    /\ gold = <<>> /\ macro = <<>>
    /\ holdings = <<>> /\ txns = <<>>
    /\ funds = <<>> /\ etfs = <<>>
    /\ schemeName = <<>>
    /\ inflight = <<>>

InitAuth ==
    /\ now = 0 /\ lastOp = "init" /\ resp = [status |-> 0]
    /\ ApiStart
    /\ BackgroundStart

\* accounts, tokens and the clock
NextAuth ==
    \/ \E e \in Emails :
           Register(e, "password1", SignupForm(e).full_name, SignupForm(e).risk_tolerance)
    \/ \E e \in Emails, p \in Passwords : Login(e, p)
    \/ \E t \in PresentedTokens : GetMe(t)
    \/ \E t \in PresentedTokens : Logout(t)
    \/ \E i \in DOMAIN users : DeactivateUser(i)
    \/ Tick(MaxClock)

SpecAuth == InitAuth /\ [][NextAuth]_vars

\* the account the recommendation specification starts with: a@x.in, registered
SeededUsers ==
    <<[id |-> 1, email |-> "a@x.in", hashed_password |-> get_password_hash("password1"),
       full_name |-> "Asha", risk_tolerance |-> "moderate", is_active |-> TRUE]>>

Init ==
    /\ now = 0 /\ lastOp = "init" /\ resp = [status |-> 0]
    /\ users = SeededUsers /\ issued = {} /\ memCalls = 0 /\ plans = <<>>
    /\ BackgroundStart

\* recommendations, for a registered user and for guests
Next ==
    \/ \E u \in 1..2, a \in Amounts, ro \in {"", "high"}, ai \in AiOutcomes :
           GetInvestmentRecommendation(u, a, ro, ai)
    \/ \E a \in Amounts, rp \in Risks, ai \in AiOutcomes : GetGuestRecommendation(a, rp, ai)
    \/ Tick(MaxPlanClock)

Spec == Init /\ [][Next]_vars

----------------------------------------------------------------------------
(* Properties of the recommendation endpoints, checked under Spec.         *)

\* C1: a guest recommendation request (POST /recommend/invest/guest), for any
\* input and any stored state, creates no InvestmentPlan row, makes no call to
\* the memory service and leaves every stored table unchanged, so the number
\* of plan rows is the same after any sequence of guest requests.
C1_GuestChangesNothing ==
    [][lastOp' = "guest" =>
          /\ plans' = plans
          /\ memCalls' = memCalls
          /\ users' = users
          /\ BackgroundTables' = BackgroundTables]_vars

\* a guest request was answered while plan rows of registered users exist
C1_Witness ==
    lastOp = "guest" /\ resp.status = 200 /\ Len(plans) = MaxPlans

\* C2: an authenticated recommendation request for an existing user that
\* returns a response has created exactly one InvestmentPlan row, owned by that
\* user, with status pending and expires_at = creation time + 7 days, and the
\* returned id and valid_until are those of the row; a request for an unknown
\* user returns 404 and creates no plan.
C2_InvestCreatesOnePlan ==
    [][\A u \in 1..2, a \in Amounts, ro \in {"", "high"}, ai \in AiOutcomes :
          GetInvestmentRecommendation(u, a, ro, ai) =>
             /\ resp'.status = 200 =>
                   /\ UserById(u) # None
                   /\ Len(plans') = Len(plans) + 1
                   /\ IsPrefix(plans, plans')
                   /\ LET plan == plans'[Len(plans')] IN
                         /\ plan.user_id = u
                         /\ plan.status = "pending"
                         /\ plan.created_at = now
                         /\ plan.expires_at = plan.created_at + 7
                         /\ \A i \in DOMAIN plans : plans[i].id # plan.id
                         /\ resp'.id = Some(plan.id)
                         /\ resp'.valid_until = Some(plan.expires_at)
             /\ resp'.status # 200 => plans' = plans
             /\ (AmountValid(a) /\ UserById(u) = None) => resp'.status = 404]_vars

\* the second plan of a user was created on a later day than the first
C2_Witness ==
    /\ lastOp = "invest" /\ resp.status = 200
    /\ Len(plans) = 2 /\ plans[2].created_at > plans[1].created_at

----------------------------------------------------------------------------
(* Properties of the account endpoints, checked under SpecAuth.            *)

SignatureVerifies(token) == token.key = SecretKey
Unexpired(token) == token.exp >= now
HasSubject(token) == token.sub.t # "none"
\* the user the subject claim names, if it names one
SubjectUser(token) ==
    IF token.sub.t \in {"int", "str"} THEN UserById(token.sub.v) ELSE None

C4_AuthRoundTrip ==
    [][\A i \in issued :
          (/\ GetMe(i.token)
           /\ Unexpired(i.token)
           /\ UserById(i.uid) # None /\ UserById(i.uid)[1].is_active)
          => /\ resp'.status = 200
             /\ resp'.user = Some(UserResponse(UserById(i.uid)[1]))]_vars

----------------------------------------------------------------------------
(* services/market_data/news_service.py                                    *)

NEWS_SOURCES == <<"Moneycontrol", "Economic Times", "LiveMint", "RBI News">>

NewsUrls == {"https://news.in/a", "https://news.in/b"}

\* a headline is its text and its length in characters
ShortTitle == [text |-> "Repo rate held", len |-> 14]
LongTitle  == [text |-> "Repo rate cut ...", len |-> 600]

TitleLimit == 500

\* title[:500]
TruncateTitle(title) ==
    [title EXCEPT !.len = IF @ > TitleLimit THEN TitleLimit ELSE @]

\* the headline a source gives an article: two of the sources write a short
\* one, the other two a long one
HeadlineOf(s) == IF s \in {1, 3} THEN ShortTitle ELSE LongTitle

\* _scrape_news_source tags every item with the name of its source (the
\* summary, the categories and the scores are not read by the deduplication)
TaggedItem(url, s) ==
    [url |-> url, title |-> HeadlineOf(s), source |-> NEWS_SOURCES[s],
     sentiment_score |-> None]

\* the articles one pass over the sources yields (at most two), by source
ScrapedLists ==
    {<<>>}
    \cup {<<[url |-> u, s |-> s]>> : u \in NewsUrls, s \in DOMAIN NEWS_SOURCES}
    \cup {<<[url |-> u, s |-> s], [url |-> v, s |-> t]>> :
            u \in NewsUrls, v \in NewsUrls,
            s \in DOMAIN NEWS_SOURCES, t \in DOMAIN NEWS_SOURCES}

\* the sources that raise in a pass: none, or one of those that had items
FailingSources(listing) ==
    {{}} \cup {{listing[k].s} : k \in DOMAIN listing}

\* the outcome of _scrape_news_source for source s: an exception, or its items
ScrapeNewsSource(listing, failed, s) ==
    IF s \in failed THEN [raised |-> TRUE, items |-> <<>>]
    ELSE [raised |-> FALSE,
          items |-> SelectSeq(listing, LAMBDA e : e.s = s)]

\* the loop over NEWS_SOURCES: a source that raises contributes nothing
RECURSIVE GatherNews(_, _, _)
GatherNews(listing, failed, s) ==
    IF s > Len(NEWS_SOURCES) THEN <<>>
    ELSE LET out  == ScrapeNewsSource(listing, failed, s)
             mine == IF out.raised THEN <<>>
                     ELSE [k \in DOMAIN out.items |->
                              TaggedItem(out.items[k].url, s)]
         IN  mine \o GatherNews(listing, failed, s + 1)

\* "Deduplicate by URL": seen_urls / unique_news
RECURSIVE DeduplicateByUrl(_, _)
DeduplicateByUrl(items, seen) ==
    IF items = <<>> THEN <<>>
    ELSE IF Head(items).url \in seen
         THEN DeduplicateByUrl(Tail(items), seen)
         ELSE <<Head(items)>>
              \o DeduplicateByUrl(Tail(items), seen \cup {Head(items).url})

SentimentOutcomes == {"scored", "unparsed", "raise"}

\* _analyze_sentiment_batch, when the gateway answers
AnalyzeSentimentBatch(items, ai) ==
    [k \in DOMAIN items |->
        IF ai = "scored"
        THEN [items[k] EXCEPT !.sentiment_score = Some("scored")]
        ELSE items[k]]

NewsRow(table, item) ==
    [id |-> Len(table) + 1, title |-> TruncateTitle(item.title),
     source |-> item.source, url |-> item.url, published_at |-> now,
     scraped_at |-> now]

\* a mutant: every analysed item is stored, whatever the table holds
RECURSIVE StoreNews_no_url_check(_, _)
StoreNews_no_url_check(table, items) ==
    IF items = <<>> THEN table
    ELSE StoreNews_no_url_check(Append(table, NewsRow(table, Head(items))),
                                Tail(items))

\* _store_news
RECURSIVE StoreNews(_, _)
StoreNews(table, items) ==
    IF items = <<>> THEN table
    ELSE IF \E r \in Range(table) : r.url = Head(items).url
         THEN StoreNews(table, Tail(items))
         ELSE StoreNews(Append(table, NewsRow(table, Head(items))), Tail(items))

\* fetch_and_analyze_news, as the refresh_news task runs it
FetchAndAnalyzeNews(listing, failed, ai) ==
    LET all_news    == GatherNews(listing, failed, 1)
        unique_news == DeduplicateByUrl(all_news, {})
        analyzed    == AnalyzeSentimentBatch(unique_news, ai)
    IN  /\ lastOp' = "refresh_news"
        /\ allNews' = all_news
        /\ uniqueNews' = unique_news
        /\ IF unique_news = <<>>
           THEN /\ news' = news
                /\ resp' = [status |-> 200, news_count |-> 0]
           ELSE IF ai = "raise"
           THEN /\ news' = news
                /\ resp' = [status |-> 500, news_count |-> 0]
           ELSE /\ news' = StoreNews(news, analyzed)
                /\ resp' = [status |-> 200, news_count |-> Len(analyzed)]
        /\ UNCHANGED <<now, apiVars, fdVars, marketVars, folioVars, assetVars,
                       schemeName, inflight>>

InitNews ==
    /\ now = 0 /\ lastOp = "init" /\ resp = [status |-> 0]
    /\ ApiStart
    /\ BackgroundStart

NextNews ==
    \E listing \in ScrapedLists, ai \in SentimentOutcomes :
        /\ \A k \in 1..(Len(listing) - 1) : listing[k].s <= listing[k + 1].s
        /\ \E failed \in FailingSources(listing) :
               FetchAndAnalyzeNews(listing, failed, ai)

SpecNews == InitNews /\ [][NextNews]_vars

----------------------------------------------------------------------------
(* News deduplication.                                                     *)

\* unique_news holds, for every URL of all_news, its first instance and
\* nothing else
FirstSeenKept ==
    /\ \A k \in DOMAIN uniqueNews :
          \E m \in DOMAIN allNews :
             /\ allNews[m] = uniqueNews[k]
             /\ \A n \in 1..(m - 1) : allNews[n].url # allNews[m].url
    /\ \A i, j \in DOMAIN uniqueNews :
          uniqueNews[i].url = uniqueNews[j].url => i = j
    /\ {allNews[m].url : m \in DOMAIN allNews}
         = {uniqueNews[k].url : k \in DOMAIN uniqueNews}

\* C5: after any sequence of news refresh runs the store holds at most one
\* market_news row per URL; a run leaves every stored row as it was (a URL
\* that comes back with another title adds nothing and changes nothing) and
\* stores, for a URL that is new, the first instance seen in that run; within
\* one run only the first-seen instance of a URL is kept before storage.
C5_NewsDedupByUrl ==
    /\ [](\A i, j \in DOMAIN news : news[i].url = news[j].url => i = j)
    /\ [](FirstSeenKept)
    /\ [][lastOp' = "refresh_news" =>
            /\ IsPrefix(news, news')
            /\ \A i \in (Len(news) + 1)..Len(news') :
                  \E k \in DOMAIN uniqueNews' :
                     /\ uniqueNews'[k].url = news'[i].url
                     /\ uniqueNews'[k].source = news'[i].source
                     /\ uniqueNews'[k].title.text = news'[i].title.text
            /\ resp'.status = 200 =>
                  \A k \in DOMAIN uniqueNews' :
                     \E r \in Range(news') : r.url = uniqueNews'[k].url]_vars

\* a run saw one URL twice, with two titles from two sources, and the store
\* already held that URL under another title than the first one seen
C5_Witness ==
    /\ lastOp = "refresh_news" /\ resp.status = 200
    /\ Len(allNews) = 2 /\ Len(uniqueNews) = 1
    /\ allNews[1].url = allNews[2].url
    /\ allNews[1].title # allNews[2].title
    /\ allNews[1].source # allNews[2].source
    /\ Len(news) = 2
    /\ \E r \in Range(news) :
          r.url = uniqueNews[1].url /\ r.title.text # uniqueNews[1].title.text

----------------------------------------------------------------------------
(* services/data_scrapers/fd_scraper.py                                    *)

MaxFdScrapes == 2   \* batch scrapes of the FD sources

\* dict.get(key, default) on an extracted field that may be absent
GetOr(field, default) == IF field = None THEN default ELSE field[1]

\* data_sources as init_seed_data leaves it, one source switched off since
SeededFdSources ==
    <<[id |-> 1, source_type |-> "fd_rates",
       source_name |-> "Unity Small Finance Bank",
       scraper_config |-> [bank_type |-> "small_finance"], is_active |-> TRUE,
       last_scraped |-> None, success_count |-> 0, failure_count |-> 0],
      [id |-> 2, source_type |-> "fd_rates", source_name |-> "HDFC Bank",
       scraper_config |-> [bank_type |-> "private"], is_active |-> TRUE,
       last_scraped |-> None, success_count |-> 0, failure_count |-> 0],
      [id |-> 3, source_type |-> "fd_rates", source_name |-> "Axis Bank",
       scraper_config |-> [bank_type |-> "private"], is_active |-> FALSE,
       last_scraped |-> None, success_count |-> 0, failure_count |-> 0]>>

\* rate tiers an extraction can yield; rates are in hundredths of a percent
TierOneYear ==
    [tenure |-> Some("1 year"), tenure_days_min |-> Some(365),
     tenure_days_max |-> Some(365), interest_rate_general |-> Some(700),
     special_features |-> None]
TierOneYearRaised ==
    [tenure |-> Some("1 year"), tenure_days_min |-> Some(365),
     tenure_days_max |-> Some(365), interest_rate_general |-> Some(850),
     special_features |-> Some({"Credit Card against FD"})]
TierBare ==
    [tenure |-> Some("2 years"), tenure_days_min |-> None,
     tenure_days_max |-> None, interest_rate_general |-> None,
     special_features |-> Some({"premature withdrawal"})]

\* what scrape_fd_rates returns for one source, and whether the crawl worked
FdScrapeOutcomes ==
    {[ok |-> FALSE, rates |-> <<>>],
     [ok |-> TRUE, rates |-> <<TierOneYear>>],
     [ok |-> TRUE, rates |-> <<TierOneYearRaised>>],
     [ok |-> TRUE, rates |-> <<TierOneYear, TierBare>>]}

\* "credit card" in str(special_features).lower()
MentionsCreditCard(features) ==
    \E f \in GetOr(features, {}) : f \in {"Credit Card against FD"}

ActiveFdSources ==
    {i \in DOMAIN srcs : srcs[i].source_type = "fd_rates" /\ srcs[i].is_active}

\* scrape_fd_rates: the counters of the source
ScrapedSource(src, out) ==
    IF out.ok
    THEN [src EXCEPT !.success_count = @ + 1, !.last_scraped = Some(now)]
    ELSE [src EXCEPT !.failure_count = @ + 1]

\* the loop of scrape_all_fd_rates: every rate is tagged with its source
RECURSIVE AllRates(_, _)
AllRates(outs, i) ==
    IF i > Len(srcs) THEN <<>>
    ELSE (IF i \in ActiveFdSources
          THEN [k \in DOMAIN outs[i].rates |->
                  [rate |-> outs[i].rates[k],
                   bank_name |-> srcs[i].source_name,
                   bank_type |-> srcs[i].scraper_config.bank_type]]
          ELSE <<>>)
         \o AllRates(outs, i + 1)

FdRow(table, rate_data) ==
    [id |-> Len(table) + 1,
     bank_name |-> rate_data.bank_name,
     bank_type |-> rate_data.bank_type,
     tenure_min_days |-> GetOr(rate_data.rate.tenure_days_min, 0),
     tenure_max_days |-> GetOr(rate_data.rate.tenure_days_max, 0),
     tenure_display |-> GetOr(rate_data.rate.tenure, ""),
     interest_rate_general |-> GetOr(rate_data.rate.interest_rate_general, 0),
     has_credit_card_offer |-> MentionsCreditCard(rate_data.rate.special_features),
     scraped_at |-> now]

\* a mutant: the row of the same bank and tenure is overwritten
RECURSIVE StoreFdRates_update_in_place(_, _)
StoreFdRates_update_in_place(table, rates) ==
    IF rates = <<>> THEN table
    ELSE LET row  == FdRow(table, Head(rates))
             same == {i \in DOMAIN table :
                         /\ table[i].bank_name = row.bank_name
                         /\ table[i].tenure_display = row.tenure_display}
         IN  IF same = {}
             THEN StoreFdRates_update_in_place(Append(table, row), Tail(rates))
             ELSE StoreFdRates_update_in_place(
                      [i \in DOMAIN table |->
                          IF i \in same THEN [row EXCEPT !.id = i]
                          ELSE table[i]],
                      Tail(rates))

\* _store_fd_rates
RECURSIVE StoreFdRates(_, _)
StoreFdRates(table, rates) ==
    IF rates = <<>> THEN table
    ELSE StoreFdRates(Append(table, FdRow(table, Head(rates))), Tail(rates))

\* every active source was tried fewer than limit times
FewerScrapes(limit) ==
    \A i \in ActiveFdSources :
       srcs[i].success_count + srcs[i].failure_count < limit

\* scrape_all_fd_rates, as the refresh_fd_rates task runs it
ScrapeAllFdRates(outs) ==
    LET all_rates == AllRates(outs, 1)
    IN  /\ lastOp' = "refresh_fd_rates"
        /\ srcs' = [i \in DOMAIN srcs |->
                       IF i \in ActiveFdSources
                       THEN ScrapedSource(srcs[i], outs[i]) ELSE srcs[i]]
        /\ fdRates' = StoreFdRates(fdRates, all_rates)
        /\ resp' = [status |-> 200,
                    total_sources |-> Cardinality(ActiveFdSources),
                    total_rates_found |-> Len(all_rates)]
        /\ UNCHANGED <<now, apiVars, newsVars, marketVars, folioVars,
                       assetVars, schemeName, inflight>>

BestRatesLimit == 20

\* the arguments of get_best_fd_rates
BestRateQueries ==
    [tenure_days : {None, Some(365)}, min_rate : {None, Some(800)},
     bank_types : {None, Some({"private"})}, with_credit_card : BOOLEAN]

\* the WHERE clauses get_best_fd_rates adds
FdFilter(r, q) ==
    /\ q.tenure_days # None /\ q.tenure_days[1] # 0 =>
          /\ r.tenure_min_days <= q.tenure_days[1]
          /\ r.tenure_max_days >= q.tenure_days[1]
    /\ q.min_rate # None /\ q.min_rate[1] # 0 =>
          r.interest_rate_general >= q.min_rate[1]
    /\ q.bank_types # None /\ q.bank_types[1] # {} =>
          r.bank_type \in q.bank_types[1]
    /\ q.with_credit_card => r.has_credit_card_offer

\* the orders the database may give rows of equal rate
TieOrders == {"oldest first", "newest first"}

\* ORDER BY interest_rate_general DESC
RECURSIVE OrderByRateDesc(_, _)
OrderByRateDesc(rows, tie) ==
    IF rows = {} THEN <<>>
    ELSE LET first ==
               CHOOSE r \in rows : \A o \in rows :
                  \/ r.interest_rate_general > o.interest_rate_general
                  \/ /\ r.interest_rate_general = o.interest_rate_general
                     /\ IF tie = "oldest first" THEN r.id <= o.id
                        ELSE r.id >= o.id
         IN  <<first>> \o OrderByRateDesc(rows \ {first}, tie)

\* LIMIT n
Limit(s, n) == IF Len(s) <= n THEN s ELSE SubSeq(s, 1, n)

\* get_best_fd_rates
GetBestFdRates(q, tie) ==
    /\ lastOp' = "best_fd_rates"
    /\ resp' = [status |-> 200, query |-> q,
                rows |-> Limit(OrderByRateDesc(
                                  {r \in Range(fdRates) : FdFilter(r, q)}, tie),
                               BestRatesLimit)]
    /\ UNCHANGED <<now, apiVars, newsVars, fdVars, marketVars, folioVars,
                   assetVars, schemeName, inflight>>

InitFD ==
    /\ now = 0 /\ lastOp = "init" /\ resp = [status |-> 0]
    /\ ApiStart
    /\ news = <<>> /\ allNews = <<>> /\ uniqueNews = <<>>
    /\ srcs = SeededFdSources /\ fdRates = <<>>
    /\ gold = <<>> /\ macro = <<>>
    /\ holdings = <<>> /\ txns = <<>>
    /\ funds = <<>> /\ etfs = <<>>
    /\ schemeName = <<>>
    /\ inflight = <<>>

NextFD ==
    \/ \E outs \in [DOMAIN srcs -> FdScrapeOutcomes] :
          /\ \A i \in DOMAIN srcs \ ActiveFdSources : ~ outs[i].ok
          /\ FewerScrapes(MaxFdScrapes)
          /\ ScrapeAllFdRates(outs)
    \/ \E q \in BestRateQueries, tie \in TieOrders : GetBestFdRates(q, tie)

SpecFD == InitFD /\ [][NextFD]_vars

----------------------------------------------------------------------------
(* FD rate history.                                                        *)

\* row r passes the filters that query q gives
SatisfiesFilters(r, q) ==
    /\ q.tenure_days = None
       \/ (r.tenure_min_days <= q.tenure_days[1]
           /\ q.tenure_days[1] <= r.tenure_max_days)
    /\ q.min_rate = None \/ r.interest_rate_general >= q.min_rate[1]
    /\ q.bank_types = None \/ r.bank_type \in q.bank_types[1]
    /\ ~ q.with_credit_card \/ r.has_credit_card_offer

\* C6: the FD history is append-only: no step updates or deletes a stored
\* fd_rates row, and a batch scrape adds one new row per extracted tier; the
\* best-rate query returns, in descending order of general rate, the stored
\* rows (historical ones included) that satisfy its filters, so that its
\* first result carries the maximum rate stored for those filters.
C6_FdHistoryAppendOnly ==
    /\ [][IsPrefix(fdRates, fdRates')]_vars
    /\ [][lastOp' = "refresh_fd_rates" =>
            /\ Len(fdRates') = Len(fdRates) + resp'.total_rates_found
            /\ \A i, j \in DOMAIN fdRates' :
                  fdRates'[i].id = fdRates'[j].id => i = j]_vars
    /\ [](lastOp = "best_fd_rates" =>
            LET rows     == resp.rows
                matching == {r \in Range(fdRates) :
                               SatisfiesFilters(r, resp.query)}
            IN  /\ \A k \in 1..(Len(rows) - 1) :
                      rows[k].interest_rate_general
                        >= rows[k + 1].interest_rate_general
                /\ Range(rows) \subseteq matching
                /\ Len(rows) = IF Cardinality(matching) <= 20
                               THEN Cardinality(matching) ELSE 20
                /\ \A i, j \in DOMAIN rows : rows[i] = rows[j] => i = j
                /\ matching # {} =>
                      \A r \in matching :
                         rows[1].interest_rate_general
                           >= r.interest_rate_general)

\* one bank was scraped twice for the same tenure, its rate went down, and
\* the best-rate query puts the older, higher row first
C6_Witness ==
    /\ lastOp = "best_fd_rates"
    /\ Len(resp.rows) >= 2
    /\ \E i, j \in DOMAIN fdRates :
          /\ i < j
          /\ fdRates[i].bank_name = fdRates[j].bank_name
          /\ fdRates[i].tenure_display = fdRates[j].tenure_display
          /\ fdRates[i].interest_rate_general > fdRates[j].interest_rate_general
          /\ resp.rows[1] = fdRates[i]
          /\ \E k \in DOMAIN resp.rows : resp.rows[k] = fdRates[j]

----------------------------------------------------------------------------
(* tasks/data_refresh_tasks.py: cleanup_old_data                           *)

MaxCleanupClock == 1   \* days the cleanup specification runs for

DefaultCleanupDays == 90
MacroRetentionDays == 365

\* the windows the task is started with
CleanupWindows == {DefaultCleanupDays, 89, 400}

\* cutoff = utcnow() - timedelta(days=days)
Cutoff(days) == now - days

\* a mutant: the macro indicators are cleaned with the window of the task
MacroCutoff_from_window(days) == now - days

\* macro_cutoff = utcnow() - timedelta(days=365)
MacroCutoff(days) == now - MacroRetentionDays

\* DELETE FROM table WHERE column < cutoff
DeleteOlder(table, column, cutoff) ==
    SelectSeq(table, LAMBDA r : ~ (r[column] < cutoff))

CleanupOldData(days) ==
    /\ lastOp' = "cleanup_old_data"
    /\ gold' = DeleteOlder(gold, "recorded_at", Cutoff(days))
    /\ news' = DeleteOlder(news, "scraped_at", Cutoff(days))
    /\ macro' = DeleteOlder(macro, "recorded_at", MacroCutoff(days))
    /\ resp' = [status |-> "success", days |-> days]
    /\ UNCHANGED <<now, apiVars, allNews, uniqueNews, fdVars, folioVars,
                   assetVars, schemeName, inflight>>

\* rows the refresh tasks stored some days before the start
GoldAgesAtStart  == {91, 90, 89}
MacroAgesAtStart == {366, 365, 91}

StoredGold(a1, a2) ==
    <<[id |-> 1, metal_type |-> "gold", price_per_gram |-> 7000,
       recorded_at |-> 0 - a1],
      [id |-> 2, metal_type |-> "silver", price_per_gram |-> 90,
       recorded_at |-> 0 - a2]>>

\* a stored article was published well before it was scraped
StoredNews(a) ==
    <<[id |-> 1, title |-> ShortTitle, source |-> NEWS_SOURCES[1],
       url |-> "https://news.in/a", published_at |-> 0 - (a + 30),
       scraped_at |-> 0 - a]>>

StoredMacro(a1, a2) ==
    <<[id |-> 1, indicator_name |-> "repo_rate", value |-> 650,
       previous_value |-> None, change_percent |-> None,
       recorded_at |-> 0 - a1],
      [id |-> 2, indicator_name |-> "usd_inr", value |-> 8400,
       previous_value |-> None, change_percent |-> None,
       recorded_at |-> 0 - a2]>>

\* an FD rate, a plan, a holding and a transaction older than any window
StoredFdRates ==
    <<[id |-> 1, bank_name |-> "HDFC Bank", bank_type |-> "private",
       tenure_min_days |-> 365, tenure_max_days |-> 365,
       tenure_display |-> "1 year", interest_rate_general |-> 700,
       has_credit_card_offer |-> FALSE, scraped_at |-> 0 - 500]>>

StoredPlans ==
    <<[id |-> 1, user_id |-> 1, investment_amount |-> 5000,
       risk_level_used |-> "moderate", recommendations |-> "suggestions",
       status |-> "pending", created_at |-> 0 - 500, expires_at |-> 0 - 493]>>

StoredHoldings ==
    <<[id |-> 1, user_id |-> 1, asset_type |-> "fd",
       asset_identifier |-> "HDFC Bank", units |-> None,
       invested_amount |-> 5000, current_value |-> 5000,
       purchase_date |-> 0 - 500]>>

StoredTransactions ==
    <<[id |-> 1, user_id |-> 1, transaction_type |-> "buy",
       asset_type |-> "fd", asset_identifier |-> "HDFC Bank",
       amount |-> 5000, transaction_date |-> 0 - 500]>>

StoredFunds ==
    <<[scheme_code |-> "119551", scheme_name |-> "Liquid Fund", nav |-> 100,
       updated_at |-> 0 - 500]>>

StoredEtfs ==
    <<[symbol |-> "GOLDBEES", underlying |-> "gold", nav |-> 60,
       last_updated |-> 0 - 500]>>

InitCleanup ==
    /\ now = 0 /\ lastOp = "init" /\ resp = [status |-> 0]
    /\ users = SeededUsers /\ issued = {} /\ memCalls = 0
    /\ plans = StoredPlans
    /\ \E a1 \in GoldAgesAtStart, a2 \in GoldAgesAtStart :
          gold = StoredGold(a1, a2)
    /\ \E a \in GoldAgesAtStart : news = StoredNews(a)
    /\ \E a1 \in MacroAgesAtStart, a2 \in MacroAgesAtStart :
          macro = StoredMacro(a1, a2)
    /\ allNews = <<>> /\ uniqueNews = <<>>
    /\ srcs = SeededFdSources /\ fdRates = StoredFdRates
    /\ holdings = StoredHoldings /\ txns = StoredTransactions
    /\ funds = StoredFunds /\ etfs = StoredEtfs
    /\ schemeName = <<>>
    /\ inflight = <<>>

NextCleanup ==
    \/ \E days \in CleanupWindows : CleanupOldData(days)
    \/ Tick(MaxCleanupClock)

SpecCleanup == InitCleanup /\ [][NextCleanup]_vars

\* C7: the cleanup job with window D deletes exactly the gold/silver price
\* rows recorded more than D days ago and the news rows scraped more than D
\* days ago, deletes exactly the macro-indicator rows recorded more than 365
\* days ago whatever D is, retains every younger row, and changes no FD-rate,
\* mutual-fund, ETF, data-source, user, holding, transaction or plan row.
C7_CleanupDeletesByAge ==
    [][\A days \in CleanupWindows :
          CleanupOldData(days) =>
             /\ gold' = SelectSeq(gold, LAMBDA r : now - r.recorded_at <= days)
             /\ news' = SelectSeq(news, LAMBDA r : now - r.scraped_at <= days)
             /\ macro' = SelectSeq(macro, LAMBDA r : now - r.recorded_at <= 365)
             /\ UNCHANGED <<fdRates, funds, etfs, srcs, users, holdings,
                            txns, plans>>]_vars

\* a cleanup with the default window dropped the price recorded 91 days ago,
\* kept the one recorded 90 days ago, dropped the indicator recorded 366 days
\* ago and kept the one recorded 91 days ago
C7_Witness ==
    /\ lastOp = "cleanup_old_data" /\ resp.days = 90
    /\ Len(gold) = 1 /\ now - gold[1].recorded_at = 90 /\ gold[1].id = 2
    /\ news = <<>>
    /\ Len(macro) = 1 /\ now - macro[1].recorded_at = 91
    /\ fdRates = StoredFdRates /\ plans = StoredPlans

----------------------------------------------------------------------------
(* services/market_data/macro_data_service.py                              *)
(* Values are in hundredths (6.5 percent is 650); a change_percent is the  *)
(* exact quotient num/den.                                                 *)

MaxMacroRows  == 4   \* rows of macro_indicators
MaxMacroClock == 1   \* days the macro specification runs for

RbiCacheDays  == 7
CpiCacheDays  == 30
ForexFallback == 8400

\* Python values handed to _store_indicator
PyFloat(n) == [t |-> "float", v |-> n, s |-> ""]
PyStr(s)   == [t |-> "str", v |-> 0, s |-> s]

\* the newest row of that name: rows are in insertion order and recorded_at
\* never decreases
LatestIndicator(table, name) ==
    LET named == {i \in DOMAIN table : table[i].indicator_name = name}
    IN  IF named = {} THEN None
        ELSE Some(table[CHOOSE i \in named : \A j \in named : j <= i])

\* _get_last_indicator
GetLastIndicator(table, name) ==
    IF LatestIndicator(table, name) = None THEN None
    ELSE Some(LatestIndicator(table, name)[1].value)

\* _get_indicator_last_updated
GetIndicatorLastUpdated(table, name) ==
    IF LatestIndicator(table, name) = None THEN None
    ELSE Some(LatestIndicator(table, name)[1].recorded_at)

\* _fetch_forex_rate: the live rate, else the last stored one, else 84.0
FetchForexRate(table, live) ==
    IF live # None /\ live[1] # 0 THEN live[1]
    ELSE IF GetLastIndicator(table, "usd_inr") # None
              /\ GetLastIndicator(table, "usd_inr")[1] # 0
         THEN GetLastIndicator(table, "usd_inr")[1]
         ELSE ForexFallback

\* _fetch_rbi_rates: the items of the dict it returns, or None
FetchRbiRates(table) ==
    IF /\ GetIndicatorLastUpdated(table, "repo_rate") # None
       /\ now - GetIndicatorLastUpdated(table, "repo_rate")[1] < RbiCacheDays
    THEN Some(<<[name |-> "repo_rate",
                 value |-> PyFloat(GetLastIndicator(table, "repo_rate")[1])],
                [name |-> "status", value |-> PyStr("cached")]>>)
    ELSE None

\* _fetch_inflation: the cached CPI, or None
FetchInflation(table) ==
    IF /\ GetIndicatorLastUpdated(table, "cpi_inflation") # None
       /\ now - GetIndicatorLastUpdated(table, "cpi_inflation")[1] < CpiCacheDays
    THEN Some(GetLastIndicator(table, "cpi_inflation")[1])
    ELSE None

\* ((value - previous_value) / previous_value) * 100
ChangePercent(value, previous_value) ==
    IF previous_value # None /\ previous_value[1] # 0
    THEN Some([num |-> (value - previous_value[1]) * 100,
               den |-> previous_value[1]])
    ELSE None

\* _store_indicator: the row it adds to the session
StoreIndicator(table, name, value, unit, source) ==
    LET previous_value == GetLastIndicator(table, name)
    IN  Append(table,
               [id |-> Len(table) + 1, indicator_name |-> name,
                value |-> value.v, previous_value |-> previous_value,
                change_percent |-> ChangePercent(value.v, previous_value),
                unit |-> unit, source |-> source, recorded_at |-> now])

RECURSIVE StoreIndicators(_, _, _, _)
StoreIndicators(table, items, unit, source) ==
    IF items = <<>> THEN table
    ELSE StoreIndicators(
             StoreIndicator(table, Head(items).name, Head(items).value,
                            unit, source),
             Tail(items), unit, source)

\* the flush of the session: a Float column takes numbers only
FlushFails(items) == \E k \in DOMAIN items : items[k].value.t # "float"

\* refresh_all_indicators, as the refresh_macro_indicators task runs it.  The
\* lookup in _fetch_inflation flushes what was stored so far; a failed flush
\* raises, and the session of the task is closed without a commit.
RefreshAllIndicators(live) ==
    LET forex     == <<[name |-> "usd_inr",
                        value |-> PyFloat(FetchForexRate(macro, live))]>>
        rbi_rates == FetchRbiRates(macro)
        rbi       == IF rbi_rates = None THEN <<>> ELSE rbi_rates[1]
        early     == FlushFails(forex \o rbi)
        inflation == FetchInflation(macro)
        cpi       == IF early \/ inflation = None THEN <<>>
                     ELSE <<[name |-> "cpi_inflation",
                             value |-> PyFloat(inflation[1])]>>
        stored    == forex \o rbi \o cpi
    IN  /\ lastOp' = "refresh_macro_indicators"
        /\ IF FlushFails(stored)
           THEN /\ macro' = macro
                /\ resp' = [status |-> "DataError", stored |-> stored]
           ELSE /\ macro' =
                     StoreIndicators(
                        StoreIndicators(
                           StoreIndicators(macro, forex, "INR", "ExchangeRate-API"),
                           rbi, "percent", "RBI"),
                        cpi, "percent", "MOSPI")
                /\ resp' = [status |-> "ok", stored |-> stored]
        /\ UNCHANGED <<now, apiVars, newsVars, fdVars, gold, folioVars,
                       assetVars, schemeName, inflight>>

\* admin_update_indicator
AdminUpdateIndicator(name, value) ==
    /\ lastOp' = "admin_update_indicator"
    /\ macro' = StoreIndicator(macro, name, PyFloat(value), "percent",
                               "admin_manual")
    /\ resp' = [status |-> "ok",
                stored |-> <<[name |-> name, value |-> PyFloat(value)]>>]
    /\ UNCHANGED <<now, apiVars, newsVars, fdVars, gold, folioVars,
                   assetVars, schemeName, inflight>>

LiveForexRates  == {None, Some(8450)}
AdminIndicators == {"repo_rate", "cpi_inflation"}
AdminValues     == {0, 600, 650}

\* the indicators seed_macro_indicators stored, some days before the start
SeededMacro(repo_age, cpi_age) ==
    <<[id |-> 1, indicator_name |-> "repo_rate", value |-> 650,
       previous_value |-> None, change_percent |-> None, unit |-> "percent",
       source |-> "seed_data_RBI", recorded_at |-> 0 - repo_age],
      [id |-> 2, indicator_name |-> "cpi_inflation", value |-> 550,
       previous_value |-> None, change_percent |-> None, unit |-> "percent",
       source |-> "seed_data_MOSPI", recorded_at |-> 0 - cpi_age]>>

InitMacro ==
    /\ now = 0 /\ lastOp = "init" /\ resp = [status |-> 0]
    /\ ApiStart
    /\ news = <<>> /\ allNews = <<>> /\ uniqueNews = <<>>
    /\ srcs = <<>> /\ fdRates = <<>>
    /\ gold = <<>>
    /\ \/ macro = <<>>
       \/ \E repo_age \in {6, 7}, cpi_age \in {29, 30} :
             macro = SeededMacro(repo_age, cpi_age)
    /\ holdings = <<>> /\ txns = <<>>
    /\ funds = <<>> /\ etfs = <<>>
    /\ schemeName = <<>>
    /\ inflight = <<>>

NextMacro ==
    \/ \E live \in LiveForexRates :
          RefreshAllIndicators(live) /\ Len(macro') <= MaxMacroRows
    \/ \E name \in AdminIndicators, value \in AdminValues :
          AdminUpdateIndicator(name, value) /\ Len(macro') <= MaxMacroRows
    \/ Tick(MaxMacroClock)

SpecMacro == InitMacro /\ [][NextMacro]_vars

----------------------------------------------------------------------------
(* Macro indicator writes.                                                 *)

\* row i of the table carries the value of the newest earlier row of its
\* name as previous_value and the change against it as change_percent
RecordsChange(table, i) ==
    LET row   == table[i]
        prior == {j \in 1..(i - 1) :
                     table[j].indicator_name = row.indicator_name}
        last  == CHOOSE j \in prior : \A k \in prior : k <= j
    IN  IF prior = {}
        THEN row.previous_value = None /\ row.change_percent = None
        ELSE /\ row.previous_value = Some(table[last].value)
             /\ IF table[last].value = 0
                THEN row.change_percent = None
                ELSE /\ row.change_percent # None
                     /\ row.change_percent[1].den # 0
                     /\ row.change_percent[1].num * table[last].value
                          = (row.value - table[last].value) * 100
                              * row.change_percent[1].den

\* C8: every macro indicator write, of a refresh run or of the admin
\* override, appends one row for the given name, whose previous_value is the
\* value of the most recently recorded row of that name and whose
\* change_percent is (value - previous) / previous * 100; both are unset when
\* the name has no prior row, and change_percent is unset when the prior value
\* is zero; this holds for the several writes of one refresh run as well.
C8_MacroWriteRecordsChange ==
    [][lastOp' \in {"refresh_macro_indicators", "admin_update_indicator"} =>
          /\ IsPrefix(macro, macro')
          /\ Len(macro') = Len(macro) + Len(resp'.stored)
          /\ \A k \in DOMAIN resp'.stored :
                macro'[Len(macro) + k].indicator_name = resp'.stored[k].name
          /\ \A i \in (Len(macro) + 1)..Len(macro') :
                RecordsChange(macro', i)]_vars

----------------------------------------------------------------------------
(* routers/portfolio.py                                                    *)
(* Amounts, units and NAVs are whole numbers; a quotient is kept exact as  *)
(* num/den.                                                                *)

MaxHoldings == 3   \* rows of portfolio_holdings

Ratio(n, d) == [num |-> n, den |-> d]

\* what a client posts to /portfolio/holdings
HoldingForms ==
    {[asset_type |-> "mutual_fund", asset_identifier |-> "119551",
      invested_amount |-> 100, units |-> Some(2)],
     [asset_type |-> "mutual_fund", asset_identifier |-> "119551",
      invested_amount |-> 100, units |-> None],
     [asset_type |-> "mutual_fund", asset_identifier |-> "000000",
      invested_amount |-> 200, units |-> Some(2)],
     [asset_type |-> "fd", asset_identifier |-> "HDFC Bank",
      invested_amount |-> 300, units |-> None],
     [asset_type |-> "gold", asset_identifier |-> "GOLD",
      invested_amount |-> 0, units |-> Some(0)]}

\* invested_amount / units if units else None
PerUnit(form) ==
    IF form.units # None /\ form.units[1] # 0
    THEN Some(Ratio(form.invested_amount, form.units[1])) ELSE None

\* add_holding; the foreign key of user_id refuses a holding of nobody
AddHolding(user_id, form) ==
    /\ lastOp' = "add_holding"
    /\ IF UserById(user_id) = None
       THEN /\ resp' = [status |-> 500, user_id |-> user_id]
            /\ UNCHANGED <<holdings, txns, memCalls>>
       ELSE /\ Len(holdings) < MaxHoldings
            /\ holdings' = Append(holdings,
                  [id |-> Len(holdings) + 1, user_id |-> user_id,
                   asset_type |-> form.asset_type,
                   asset_identifier |-> form.asset_identifier,
                   invested_amount |-> form.invested_amount,
                   current_value |-> form.invested_amount,
                   units |-> form.units, average_cost |-> PerUnit(form),
                   purchase_date |-> now, last_valued_at |-> now])
            /\ txns' = Append(txns,
                  [id |-> Len(txns) + 1, user_id |-> user_id,
                   transaction_type |-> "buy",
                   asset_type |-> form.asset_type,
                   asset_identifier |-> form.asset_identifier,
                   units |-> form.units, amount |-> form.invested_amount,
                   price_per_unit |-> PerUnit(form),
                   transaction_date |-> now])
            /\ memCalls' = memCalls + 1
            /\ resp' = [status |-> 200, user_id |-> user_id,
                        id |-> Len(holdings) + 1]
    /\ UNCHANGED <<now, users, issued, plans, newsVars, fdVars, marketVars,
                   assetVars, schemeName, inflight>>

FundByCode(code) ==
    IF \E i \in DOMAIN funds : funds[i].scheme_code = code
    THEN Some(CHOOSE f \in Range(funds) : f.scheme_code = code)
    ELSE None

\* the value get_holdings reports for holding h
CurrentValue(h) ==
    IF /\ h.asset_type = "mutual_fund"
       /\ FundByCode(h.asset_identifier) # None
       /\ h.units # None /\ h.units[1] # 0
    THEN h.units[1] * FundByCode(h.asset_identifier)[1].nav
    ELSE h.current_value

HoldingResponse(h) ==
    LET current_value == CurrentValue(h)
        gain_loss     == current_value - h.invested_amount
    IN  [id |-> h.id, asset_type |-> h.asset_type,
         asset_identifier |-> h.asset_identifier,
         invested_amount |-> h.invested_amount,
         current_value |-> current_value, units |-> h.units,
         gain_loss |-> gain_loss,
         gain_loss_percent |->
            IF h.invested_amount > 0
            THEN Ratio(gain_loss * 100, h.invested_amount) ELSE Ratio(0, 1)]

\* get_holdings: the response list
HoldingsOf(user_id) ==
    LET mine == SelectSeq(holdings, LAMBDA h : h.user_id = user_id)
    IN  [k \in DOMAIN mine |-> HoldingResponse(mine[k])]

GetHoldings(user_id) ==
    /\ lastOp' = "get_holdings"
    /\ resp' = [status |-> 200, user_id |-> user_id,
                holdings |-> HoldingsOf(user_id)]
    /\ UNCHANGED <<now, apiVars, BackgroundTables>>

\* sum(field of h for h in list)
RECURSIVE SumField(_, _)
SumField(list, field) ==
    IF list = <<>> THEN 0
    ELSE Head(list)[field] + SumField(Tail(list), field)

\* a mutant: the share is not scaled to a percentage
AllocationPercent_as_fraction(current, total_current) ==
    IF total_current > 0 THEN Ratio(current, total_current) ELSE Ratio(0, 1)

\* current / total_current * 100 if total_current > 0 else 0
AllocationPercent(current, total_current) ==
    IF total_current > 0 THEN Ratio(current * 100, total_current)
    ELSE Ratio(0, 1)

\* the allocation dict of get_portfolio_summary
Allocation(list, total_current) ==
    [t \in {list[k].asset_type : k \in DOMAIN list} |->
        LET of_type == SelectSeq(list, LAMBDA h : h.asset_type = t)
        IN  [invested |-> SumField(of_type, "invested_amount"),
             current  |-> SumField(of_type, "current_value"),
             percent  |-> AllocationPercent(
                             SumField(of_type, "current_value"),
                             total_current)]]

GetPortfolioSummary(user_id) ==
    LET list           == HoldingsOf(user_id)
        total_invested == SumField(list, "invested_amount")
        total_current  == SumField(list, "current_value")
    IN  /\ lastOp' = "get_portfolio_summary"
        /\ resp' = [status |-> 200, user_id |-> user_id,
                    total_invested |-> total_invested,
                    total_current_value |-> total_current,
                    total_gain_loss |-> total_current - total_invested,
                    total_gain_loss_percent |->
                       IF total_invested > 0
                       THEN Ratio((total_current - total_invested) * 100,
                                  total_invested)
                       ELSE Ratio(0, 1),
                    allocation |-> Allocation(list, total_current)]
        /\ UNCHANGED <<now, apiVars, BackgroundTables>>

\* the NAVs the fund table can hold: 0.0 after a sync, a price after an update
StoredNavs == {0, 70}

InitPortfolio ==
    /\ now = 0 /\ lastOp = "init" /\ resp = [status |-> 0]
    /\ users = SeededUsers /\ issued = {} /\ memCalls = 0 /\ plans = <<>>
    /\ news = <<>> /\ allNews = <<>> /\ uniqueNews = <<>>
    /\ srcs = <<>> /\ fdRates = <<>>
    /\ gold = <<>> /\ macro = <<>>
    /\ holdings = <<>> /\ txns = <<>>
    /\ \E nav \in StoredNavs :
          funds = <<[scheme_code |-> "119551", scheme_name |-> "Liquid Fund",
                     nav |-> nav, updated_at |-> 0]>>
    /\ etfs = <<>>
    /\ schemeName = <<>>
    /\ inflight = <<>>

NextPortfolio ==
    \/ \E u \in 1..2, form \in HoldingForms : AddHolding(u, form)
    \/ \E u \in 1..2 : GetHoldings(u)
    \/ \E u \in 1..2 : GetPortfolioSummary(u)

SpecPortfolio == InitPortfolio /\ [][NextPortfolio]_vars

RECURSIVE SumOver(_, _)
SumOver(set, f) ==
    IF set = {} THEN 0
    ELSE LET x == CHOOSE y \in set : TRUE
         IN  f[x] + SumOver(set \ {x}, f)

\* C9: in a portfolio summary of holdings whose total current value is
\* positive the allocation percents of all asset types sum to 100 and each is
\* that type's current amount divided by the total; when the total is zero
\* every percent is 0; the totals are the sums of the per-holding values that
\* the holdings list reports for the same user.
C9_SummaryAllocation ==
    lastOp = "get_portfolio_summary" =>
       LET list  == HoldingsOf(resp.user_id)
           total == resp.total_current_value
           types == DOMAIN resp.allocation
           nums  == [t \in DOMAIN resp.allocation |->
                       resp.allocation[t].percent.num]
       IN  /\ resp.total_invested = SumField(list, "invested_amount")
           /\ total = SumField(list, "current_value")
           /\ types = {list[k].asset_type : k \in DOMAIN list}
           /\ \A t \in types :
                 resp.allocation[t].current =
                    SumField(SelectSeq(list, LAMBDA h : h.asset_type = t),
                             "current_value")
           /\ total > 0 =>
                 /\ \A t \in types :
                       /\ resp.allocation[t].percent.den # 0
                       /\ resp.allocation[t].percent.num * total
                            = resp.allocation[t].current * 100
                                * resp.allocation[t].percent.den
                       /\ resp.allocation[t].percent.den = total
                 /\ SumOver(types, nums) = 100 * total
           /\ total = 0 =>
                 \A t \in types : resp.allocation[t].percent.num = 0

\* a summary over three holdings of three asset types, one of them a fund
\* revalued at its NAV, with a positive total
C9_Witness ==
    /\ lastOp = "get_portfolio_summary"
    /\ resp.total_current_value > 0
    /\ Cardinality(DOMAIN resp.allocation) = 3
    /\ resp.total_current_value # resp.total_invested
    /\ \E t \in DOMAIN resp.allocation : resp.allocation[t].percent.num = 0

----------------------------------------------------------------------------
(* services/data_scrapers/mf_data_service.py: the name heuristics          *)

MaxNameWords == 2   \* words of a scheme name

\* pattern in text
Contains(text, pattern) ==
    \E i \in 1..(Len(text) - Len(pattern) + 1) :
       SubSeq(text, i, i + Len(pattern) - 1) = pattern

UpperToLower ==
    ("A" :> "a") @@ ("B" :> "b") @@ ("C" :> "c") @@ ("D" :> "d") @@
    ("E" :> "e") @@ ("F" :> "f") @@ ("G" :> "g") @@ ("H" :> "h") @@
    ("I" :> "i") @@ ("J" :> "j") @@ ("K" :> "k") @@ ("L" :> "l") @@
    ("M" :> "m") @@ ("N" :> "n") @@ ("O" :> "o") @@ ("P" :> "p") @@
    ("Q" :> "q") @@ ("R" :> "r") @@ ("S" :> "s") @@ ("T" :> "t") @@
    ("U" :> "u") @@ ("V" :> "v") @@ ("W" :> "w") @@ ("X" :> "x") @@
    ("Y" :> "y") @@ ("Z" :> "z")

\* a mutant: the name is matched as it is written
RECURSIVE LowerCase_unchanged(_)
LowerCase_unchanged(text) == text

\* str.lower()
RECURSIVE LowerCase(_)
LowerCase(text) ==
    IF Len(text) = 0 THEN ""
    ELSE LET c == SubSeq(text, 1, 1)
         IN  (IF c \in DOMAIN UpperToLower THEN UpperToLower[c] ELSE c)
             \o LowerCase(SubSeq(text, 2, Len(text)))

\* _determine_plan_type
DeterminePlanType(name) ==
    LET name_lower == LowerCase(name)
    IN  IF Contains(name_lower, "direct") THEN "direct"
        ELSE IF Contains(name_lower, "regular") THEN "regular"
        ELSE "regular"

\* _categorize_scheme
CategorizeScheme(name) ==
    LET name_lower == LowerCase(name)
        In(p) == Contains(name_lower, p)
    IN  IF In("liquid") THEN "debt"
        ELSE IF In("overnight") THEN "debt"
        ELSE IF In("money market") THEN "debt"
        ELSE IF In("ultra short") THEN "debt"
        ELSE IF In("low duration") THEN "debt"
        ELSE IF In("short duration") \/ In("short term") THEN "debt"
        ELSE IF In("medium duration") \/ In("medium term") THEN "debt"
        ELSE IF In("long duration") \/ In("long term") THEN "debt"
        ELSE IF In("gilt") THEN "debt"
        ELSE IF In("corporate bond") THEN "debt"
        ELSE IF In("banking") /\ In("psu") THEN "debt"
        ELSE IF In("credit risk") THEN "debt"
        ELSE IF In("dynamic bond") THEN "debt"
        ELSE IF In("debt") \/ In("bond") \/ In("income") THEN "debt"
        ELSE IF In("floater") THEN "debt"
        ELSE IF In("hybrid") THEN "hybrid"
        ELSE IF In("balanced") THEN "hybrid"
        ELSE IF In("aggressive") /\ In("hybrid") THEN "hybrid"
        ELSE IF In("conservative") /\ In("hybrid") THEN "hybrid"
        ELSE IF In("equity savings") THEN "hybrid"
        ELSE IF In("arbitrage") THEN "hybrid"
        ELSE IF In("multi asset") THEN "hybrid"
        ELSE IF In("gold") THEN "gold"
        ELSE IF In("silver") THEN "silver"
        ELSE IF In("retirement") THEN "solution"
        ELSE IF In("children") \/ In("child") THEN "solution"
        ELSE IF In("elss") \/ (In("tax") /\ In("saver")) THEN "equity_elss"
        ELSE IF In("index") \/ In("nifty") \/ In("sensex") THEN "equity_index"
        ELSE IF In("etf") THEN "etf"
        ELSE IF \E x \in {"large cap", "largecap", "large-cap",
                          "mid cap", "midcap", "mid-cap",
                          "small cap", "smallcap", "small-cap",
                          "multi cap", "multicap", "multi-cap",
                          "flexi cap", "flexicap", "flexi-cap",
                          "focused", "value", "contra", "dividend yield",
                          "equity", "growth", "opportunities"} : In(x)
             THEN "equity"
        ELSE IF In("sectoral") \/ In("sector") THEN "equity_sectoral"
        ELSE IF In("thematic") THEN "equity_thematic"
        ELSE IF In("fund of fund") \/ In("fof") THEN "fof"
        ELSE "other"

\* _determine_sub_category
DetermineSubCategory(name) ==
    LET name_lower == LowerCase(name)
        In(p) == Contains(name_lower, p)
    IN  IF In("large cap") \/ In("largecap") THEN Some("large_cap")
        ELSE IF In("mid cap") \/ In("midcap") THEN Some("mid_cap")
        ELSE IF In("small cap") \/ In("smallcap") THEN Some("small_cap")
        ELSE IF In("large & mid") \/ In("large and mid")
             THEN Some("large_mid_cap")
        ELSE IF In("multi cap") \/ In("multicap") THEN Some("multi_cap")
        ELSE IF In("flexi cap") \/ In("flexicap") THEN Some("flexi_cap")
        ELSE IF In("focused") THEN Some("focused")
        ELSE IF In("value") THEN Some("value")
        ELSE IF In("contra") THEN Some("contra")
        ELSE IF In("dividend yield") THEN Some("dividend_yield")
        ELSE None

\* words scheme names are made of
NameWords ==
    {"Liquid Fund", "Large Cap", "Gold", "Bond", "Index", "Hybrid", "ETF",
     "Retirement", "Tax Saver", "HDFC", "Growth", "Direct"}

RECURSIVE NamesOfWords(_)
NamesOfWords(n) ==
    IF n = 1 THEN NameWords
    ELSE NamesOfWords(n - 1)
         \cup {name \o " " \o w : name \in NamesOfWords(n - 1), w \in NameWords}

SchemeNames == NamesOfWords(MaxNameWords)

\* the classification sync_all_schemes makes of one scheme of the list
ClassifyScheme ==
    /\ lastOp = "init"
    /\ lastOp' = "classify_scheme"
    /\ resp' = [status |-> 0,
                plan_type |-> DeterminePlanType(schemeName),
                category |-> CategorizeScheme(schemeName),
                sub_category |-> DetermineSubCategory(schemeName)]
    /\ UNCHANGED <<now, apiVars, BackgroundTables>>

InitCategorize ==
    /\ now = 0 /\ lastOp = "init" /\ resp = [status |-> 0]
    /\ ApiStart
    /\ news = <<>> /\ allNews = <<>> /\ uniqueNews = <<>>
    /\ srcs = <<>> /\ fdRates = <<>>
    /\ gold = <<>> /\ macro = <<>>
    /\ holdings = <<>> /\ txns = <<>>
    /\ funds = <<>> /\ etfs = <<>>
    /\ schemeName \in SchemeNames
    /\ inflight = <<>>

NextCategorize == ClassifyScheme

SpecCategorize == InitCategorize /\ [][NextCategorize]_vars

\* the name carries a keyword of a group that is matched before gold
OutranksGold(name) ==
    LET In(p) == Contains(LowerCase(name), p)
    IN  \/ \E p \in {"liquid", "overnight", "money market", "ultra short",
                     "low duration", "short duration", "short term",
                     "medium duration", "medium term", "long duration",
                     "long term", "gilt", "corporate bond", "credit risk",
                     "dynamic bond", "debt", "bond", "income", "floater",
                     "hybrid", "balanced", "equity savings", "arbitrage",
                     "multi asset"} : In(p)
        \/ In("banking") /\ In("psu")

\* the name carries a keyword of a group that is matched before equity
OutranksEquity(name) ==
    LET In(p) == Contains(LowerCase(name), p)
    IN  \/ OutranksGold(name)
        \/ \E p \in {"gold", "silver", "retirement", "children", "child",
                     "elss", "index", "nifty", "sensex", "etf"} : In(p)
        \/ In("tax") /\ In("saver")

\* C10 as stated: the category of a scheme is debt for every name containing
\* "Liquid Fund", equity (with sub-category large_cap) for every name
\* containing "Large Cap" and gold for every name containing "Gold", whatever
\* other keywords the name contains.
C10_KeywordDecidesCategory ==
    lastOp = "classify_scheme" =>
       /\ Contains(schemeName, "Liquid Fund") => resp.category = "debt"
       /\ Contains(schemeName, "Large Cap") =>
             resp.category = "equity" /\ resp.sub_category = Some("large_cap")
       /\ Contains(schemeName, "Gold") => resp.category = "gold"

\* C10: the category of a scheme is debt for every name containing "Liquid
\* Fund"; the sub-category is large_cap for every name containing "Large
\* Cap", and the category of such a name is equity unless it carries a
\* keyword of a group matched earlier (debt, hybrid, gold, silver, solution,
\* ELSS, index, ETF); the category is gold for every name containing "Gold"
\* unless it carries a debt or hybrid keyword.
C10_KeywordDecidesCategoryByPriority ==
    lastOp = "classify_scheme" =>
       /\ Contains(schemeName, "Liquid Fund") => resp.category = "debt"
       /\ Contains(schemeName, "Large Cap") =>
             /\ resp.sub_category = Some("large_cap")
             /\ ~ OutranksEquity(schemeName) => resp.category = "equity"
             /\ OutranksEquity(schemeName) => resp.category # "equity"
       /\ Contains(schemeName, "Gold") =>
             /\ ~ OutranksGold(schemeName) => resp.category = "gold"
             /\ OutranksGold(schemeName) => resp.category \in {"debt", "hybrid"}

\* a large-cap index scheme is filed under equity_index
C10_Witness ==
    /\ lastOp = "classify_scheme"
    /\ Contains(schemeName, "Large Cap")
    /\ resp.category = "equity_index"
    /\ resp.sub_category = Some("large_cap")

----------------------------------------------------------------------------
(* services/data_scrapers/mf_data_service.py: _extract_amc                 *)

MaxAmcWords == 2   \* words of a scheme name given to _extract_amc

\* (fund-house fragment, short name), in the order of the source
common_amcs ==
    << <<"Aditya Birla Sun Life", "Aditya Birla">>, <<"HDFC", "HDFC">>,
       <<"ICICI Prudential", "ICICI">>, <<"SBI", "SBI">>, <<"Axis", "Axis">>,
       <<"Kotak Mahindra", "Kotak">>, <<"Nippon India", "Nippon">>,
       <<"Tata", "Tata">>, <<"DSP", "DSP">>, <<"UTI", "UTI">>,
       <<"Mirae Asset", "Mirae">>, <<"Parag Parikh", "PPFAS">>,
       <<"Motilal Oswal", "Motilal">>, <<"Franklin Templeton", "Franklin">>,
       <<"PGIM India", "PGIM">>, <<"Invesco", "Invesco">>, <<"L&T", "L&T">>,
       <<"Canara Robeco", "Canara">>, <<"Sundaram", "Sundaram">>,
       <<"HSBC", "HSBC">>, <<"Edelweiss", "Edelweiss">>,
       <<"Bandhan", "Bandhan">>, <<"Baroda BNP", "Baroda">>,
       <<"Union", "Union">>, <<"Bank of India", "BOI">>, <<"LIC", "LIC">>,
       <<"Quant", "Quant">>, <<"360 ONE", "360 ONE">>,
       <<"WhiteOak", "WhiteOak">>, <<"Groww", "Groww">>,
       <<"Zerodha", "Zerodha">>, <<"Samco", "Samco">>, <<"NJ", "NJ">>,
       <<"TRUST", "Trust">>, <<"Mahindra Manulife", "Mahindra">>,
       <<"ITI", "ITI">>, <<"PPFAS", "PPFAS">>, <<"JM Financial", "JM">>,
       <<"Quantum", "Quantum">>, <<"Principal", "Principal">>,
       <<"BNP Paribas", "BNP">>, <<"IDFC", "IDFC">>,
       <<"Shriram", "Shriram">>, <<"Yes", "Yes">>, <<"BOI AXA", "BOI AXA">>,
       <<"Indiabulls", "Indiabulls">>, <<"IIFL", "IIFL">>,
       <<"Navi", "Navi">> >>

\* a mutant: the fragment is matched as it is written
AmcMatches_case_sensitive(name, full_name) == Contains(name, full_name)

\* full_name.lower() in name_lower
AmcMatches(name, full_name) ==
    Contains(LowerCase(name), LowerCase(full_name))

\* characters str.split() splits on
Whitespace == {" ", "\t", "\n"}

\* name.split()[0], None when split() gives no word
FirstWord(name) ==
    LET chars  == 1..Len(name)
        starts == {i \in chars : SubSeq(name, i, i) \notin Whitespace}
    IN  IF starts = {} THEN None
        ELSE LET b == CHOOSE i \in starts : \A j \in starts : i <= j
                 stops == {i \in chars : i > b /\ SubSeq(name, i, i) \in Whitespace}
                 e == IF stops = {} THEN Len(name)
                      ELSE (CHOOSE i \in stops : \A j \in stops : i <= j) - 1
             IN  Some(SubSeq(name, b, e))

\* the for loop of _extract_amc from entry i on, then the fallbacks
RECURSIVE ExtractAmcFrom(_, _)
ExtractAmcFrom(name, i) ==
    IF i > Len(common_amcs)
    THEN LET words == FirstWord(name)
         IN  IF words # None THEN words[1] ELSE "Other"
    ELSE IF AmcMatches(name, common_amcs[i][1]) THEN common_amcs[i][2]
    ELSE ExtractAmcFrom(name, i + 1)

\* _extract_amc
ExtractAmc(name) == ExtractAmcFrom(name, 1)

\* words scheme names are made of
AmcWords ==
    {"ICICI Prudential", "icici", "HDFC", "axis", "Quantum", "Zephyr",
     "Capital", "Kotak Mahindra", "Manulife", "Flexi", "Fund", ""}

RECURSIVE AmcNamesOfWords(_)
AmcNamesOfWords(n) ==
    IF n = 1 THEN AmcWords
    ELSE AmcNamesOfWords(n - 1)
         \cup {name \o " " \o w : name \in AmcNamesOfWords(n - 1), w \in AmcWords}

AmcSchemeNames ==
    AmcNamesOfWords(MaxAmcWords)
    \cup {"ICICI Prudential Bluechip Fund", "Zephyr Capital Flexi Fund",
          "Zephyr\tCapital", "\n"}

\* the AMC _process_scheme_batch derives for one scheme of the list
ExtractAmcOfScheme ==
    /\ lastOp = "init"
    /\ lastOp' = "extract_amc"
    /\ resp' = [status |-> 0, amc_name |-> ExtractAmc(schemeName)]
    /\ UNCHANGED <<now, apiVars, BackgroundTables>>

InitAmc ==
    /\ now = 0 /\ lastOp = "init" /\ resp = [status |-> 0]
    /\ ApiStart
    /\ news = <<>> /\ allNews = <<>> /\ uniqueNews = <<>>
    /\ srcs = <<>> /\ fdRates = <<>>
    /\ gold = <<>> /\ macro = <<>>
    /\ holdings = <<>> /\ txns = <<>>
    /\ funds = <<>> /\ etfs = <<>>
    /\ schemeName \in AmcSchemeNames
    /\ inflight = <<>>

NextAmc == ExtractAmcOfScheme

SpecAmc == InitAmc /\ [][NextAmc]_vars

\* entries of the table whose fragment occurs in the name, whatever the case
AmcHits(name) ==
    {i \in 1..Len(common_amcs) : Contains(LowerCase(name), LowerCase(common_amcs[i][1]))}

\* word is the first whitespace-delimited word of name
IsFirstWordOf(word, name) ==
    \E b \in 1..Len(name) : \E e \in b..Len(name) :
       /\ \A i \in 1..(b - 1) : SubSeq(name, i, i) \in Whitespace
       /\ \A i \in b..e : SubSeq(name, i, i) \notin Whitespace
       /\ e < Len(name) => SubSeq(name, e + 1, e + 1) \in Whitespace
       /\ word = SubSeq(name, b, e)

\* C11: the extracted AMC is the short name of the first table entry whose
\* fragment occurs in the name (case-insensitively); with no such entry it is
\* the first whitespace-delimited word of the name; with no word it is
\* "Other". "ICICI Prudential Bluechip Fund" gives "ICICI" and "Zephyr
\* Capital Flexi Fund" gives "Zephyr".
C11_AmcFirstMatchWins ==
    lastOp = "extract_amc" =>
       /\ \A i \in AmcHits(schemeName) :
             (\A j \in AmcHits(schemeName) : i <= j)
                => resp.amc_name = common_amcs[i][2]
       /\ AmcHits(schemeName) = {} =>
             IF \E i \in 1..Len(schemeName) : SubSeq(schemeName, i, i) \notin Whitespace
             THEN IsFirstWordOf(resp.amc_name, schemeName)
             ELSE resp.amc_name = "Other"
       /\ schemeName = "ICICI Prudential Bluechip Fund" => resp.amc_name = "ICICI"
       /\ inflight = <<>>
       /\ schemeName = "Zephyr Capital Flexi Fund" => resp.amc_name = "Zephyr"
       /\ inflight = <<>>

\* two fragments occur in the name, in lower case, and the one that comes
\* first in the table is returned although it comes second in the name
C11_Witness ==
    /\ lastOp = "extract_amc"
    /\ schemeName = "axis HDFC"
    /\ inflight = <<>>
    /\ AmcHits(schemeName) = {2, 5}
    /\ resp.amc_name = "HDFC"

----------------------------------------------------------------------------
(* services/market_data/gold_price_service.py                              *)
(* Quotes are whole rupees (or dollars); stored prices are hundredths of a *)
(* rupee, the two decimals round(x, 2) keeps.                              *)

MaxMetalClock == 1   \* days the metals specification runs for

Metals == {"gold", "silver"}

\* TROY_OZ_TO_GRAMS = 31.1035, as the quotient 62207 / 2000
TroyOzToGramsNum == 62207
TroyOzToGramsDen == 2000

GoldUsdFallback == 2650

\* the integer nearest to num / den, a tie going to the even one
RoundDiv(num, den) ==
    LET q == num \div den
        r == num % den
    IN  IF 2 * r > den THEN q + 1
        ELSE IF 2 * r < den THEN q
        ELSE IF q % 2 = 0 THEN q ELSE q + 1

\* round(price_per_oz / TROY_OZ_TO_GRAMS * times, 2) in hundredths, by long
\* division so that no intermediate product leaves 32 bits
RoundPerGram(price_per_oz, times) ==
    LET k == TroyOzToGramsDen * times
        a == price_per_oz \div TroyOzToGramsNum
        b == price_per_oz % TroyOzToGramsNum
        c == (b * k) \div TroyOzToGramsNum
        d == (b * k) % TroyOzToGramsNum
    IN  a * k * 100 + c * 100 + RoundDiv(d * 100, TroyOzToGramsNum)

\* the dict built from a price per troy ounce
FromOunce(price_per_oz, source) ==
    [per_gram |-> RoundPerGram(price_per_oz, 1),
     per_10g  |-> RoundPerGram(price_per_oz, 10),
     per_oz   |-> Some(price_per_oz * 100),
     source   |-> source]

\* the dict built from a price per gram
FromGram(price_per_gram, source) ==
    [per_gram |-> price_per_gram * 100,
     per_10g  |-> price_per_gram * 10 * 100,
     per_oz   |-> None,
     source   |-> source]

\* what a source answers during one run: None for a failed request (an
\* exception or a status other than 200), Some(v) for a 200 carrying v
Quotes(v) == {None, Some(0), Some(v)}
Answers(v) == {None, Some(v)}

\* the answers of one run; without METALS_API_KEY the keyed sources are not
\* asked
MetalEnvs ==
    {env \in [key               : BOOLEAN,
              goldapi_gold      : Answers(200000),
              metals_dev_gold   : Answers(6400),
              forex             : Answers(84),
              metals_live       : Quotes(2600),
              goldapi_silver    : Quotes(2800),
              metals_dev_silver : Answers(95)] :
        ~ env.key => /\ env.goldapi_gold = None /\ env.metals_dev_gold = None
                     /\ env.goldapi_silver = None /\ env.metals_dev_silver = None}

\* _get_gold_usd_price
GetGoldUsdPrice(env) ==
    IF env.metals_live # None THEN env.metals_live[1] ELSE GoldUsdFallback

\* _fetch_gold_price
FetchGoldPrice(env) ==
    IF env.key /\ env.goldapi_gold # None /\ env.goldapi_gold[1] > 0
    THEN Some(FromOunce(env.goldapi_gold[1], "goldapi.io"))
    ELSE IF env.key /\ env.metals_dev_gold # None /\ env.metals_dev_gold[1] > 0
    THEN Some(FromGram(env.metals_dev_gold[1], "metals.dev"))
    ELSE IF env.forex # None /\ env.forex[1] > 0 /\ GetGoldUsdPrice(env) > 0
    THEN Some(FromOunce(GetGoldUsdPrice(env) * env.forex[1], "derived_from_usd"))
    ELSE None

\* _fetch_silver_price
FetchSilverPrice(env) ==
    IF env.key /\ env.goldapi_silver # None /\ env.goldapi_silver[1] > 0
    THEN Some(FromOunce(env.goldapi_silver[1], "goldapi.io"))
    ELSE None

\* _store_price: the table with one more row
StorePrice(table, metal_type, price_data) ==
    Append(table,
           [id |-> Len(table) + 1, metal_type |-> metal_type,
            price_per_gram |-> price_data.per_gram,
            price_per_10g |-> price_data.per_10g,
            price_per_oz |-> price_data.per_oz,
            source |-> price_data.source, recorded_at |-> now])

\* rows of a metal; ids grow with the time of the insert
RowsOfMetal(table, metal_type) ==
    {i \in 1..Len(table) : table[i].metal_type = metal_type}

\* a mutant: the oldest row is read
GetLastKnownPrice_oldest(table, metal_type) ==
    LET rows == RowsOfMetal(table, metal_type)
    IN  IF rows = {} THEN None
        ELSE LET i == CHOOSE i \in rows : \A j \in rows : i <= j
             IN  Some([per_gram |-> table[i].price_per_gram,
                       per_10g |-> table[i].price_per_10g,
                       recorded_at |-> table[i].recorded_at,
                       source |-> table[i].source])

\* _get_last_known_price: ORDER BY recorded_at DESC LIMIT 1; rows of the same
\* day were stamped in the order of their inserts
GetLastKnownPrice(table, metal_type) ==
    LET rows == RowsOfMetal(table, metal_type)
    IN  IF rows = {} THEN None
        ELSE LET i == CHOOSE i \in rows : \A j \in rows :
                         \/ table[j].recorded_at < table[i].recorded_at
                         \/ table[j].recorded_at = table[i].recorded_at /\ j <= i
             IN  Some([per_gram |-> table[i].price_per_gram,
                       per_10g |-> table[i].price_per_10g,
                       recorded_at |-> table[i].recorded_at,
                       source |-> table[i].source])

\* one half of fetch_and_store_prices: the table and the results after it
MetalStep(table, results, metal_type, price) ==
    IF price # None
    THEN [table |-> StorePrice(table, metal_type, price[1]),
          results |-> results @@ (metal_type :> price[1])]
    ELSE LET last == GetLastKnownPrice(table, metal_type)
         IN  IF last # None
             THEN [table |-> table,
                   results |-> results @@
                      (metal_type :> [status |-> "stale", last_price |-> last[1]])]
             ELSE [table |-> table, results |-> results]

\* fetch_and_store_prices; the scheduler starts no second run on a day that
\* has its prices
FetchAndStorePrices(env) ==
    LET afterGold == MetalStep(gold, <<>>, "gold", FetchGoldPrice(env))
        afterSilver == MetalStep(afterGold.table, afterGold.results, "silver",
                                 FetchSilverPrice(env))
    IN  /\ \A i \in 1..Len(gold) : gold[i].recorded_at < now
        /\ lastOp' = "refresh_gold_prices"
        /\ gold' = afterSilver.table
        /\ resp' = [status |-> 0, results |-> afterSilver.results]
        /\ UNCHANGED <<now, apiVars, newsVars, fdVars, macro, folioVars,
                       assetVars, schemeName, inflight>>

\* prices earlier runs stored: two of gold, one of silver, or none at all
StoredMetalPrices ==
    <<[id |-> 1, metal_type |-> "gold", price_per_gram |-> 690000,
       price_per_10g |-> 6900000, price_per_oz |-> None,
       source |-> "metals.dev", recorded_at |-> 0 - 2],
      [id |-> 2, metal_type |-> "silver", price_per_gram |-> 9000,
       price_per_10g |-> 90000, price_per_oz |-> Some(279932),
       source |-> "goldapi.io", recorded_at |-> 0 - 2],
      [id |-> 3, metal_type |-> "gold", price_per_gram |-> 700000,
       price_per_10g |-> 7000000, price_per_oz |-> None,
       source |-> "metals.dev", recorded_at |-> 0 - 1]>>

InitMetals ==
    /\ now = 0 /\ lastOp = "init" /\ resp = [status |-> 0]
    /\ ApiStart
    /\ news = <<>> /\ allNews = <<>> /\ uniqueNews = <<>>
    /\ srcs = <<>> /\ fdRates = <<>>
    /\ gold \in {<<>>, StoredMetalPrices}
    /\ macro = <<>>
    /\ holdings = <<>> /\ txns = <<>>
    /\ funds = <<>> /\ etfs = <<>>
    /\ schemeName = <<>>
    /\ inflight = <<>>

NextMetals ==
    \/ \E env \in MetalEnvs : FetchAndStorePrices(env)
    \/ Tick(MaxMetalClock)

SpecMetals == InitMetals /\ [][NextMetals]_vars


\* rows the step added for a metal
AddedRows(metal_type) ==
    {i \in (Len(gold) + 1)..Len(gold') : gold'[i].metal_type = metal_type}

\* every network source of the chain of a metal failed in this run
AllSourcesFailed(env, metal_type) ==
    IF metal_type = "gold"
    THEN /\ env.key => env.goldapi_gold = None /\ env.metals_dev_gold = None
         /\ env.forex = None
    ELSE env.key => env.goldapi_silver = None /\ env.metals_dev_silver = None

\* some network source answered a positive price the run could use
PriceObtained(env, metal_type) ==
    IF metal_type = "gold"
    THEN \/ env.key /\ env.goldapi_gold = Some(200000)
         \/ env.key /\ env.metals_dev_gold = Some(6400)
         \/ env.forex = Some(84) /\ env.metals_live # Some(0)
    ELSE env.key /\ env.goldapi_silver = Some(2800)

\* the stored row of a metal no other row of it is newer than
IsLatestRow(i, metal_type) ==
    /\ i \in RowsOfMetal(gold, metal_type)
    /\ \A j \in RowsOfMetal(gold, metal_type) :
          gold[j].recorded_at <= gold[i].recorded_at
    /\ \A j \in RowsOfMetal(gold, metal_type) :
          gold[j].recorded_at = gold[i].recorded_at => j <= i

C13_SilverFallbackChain ==
    [][\A env \in MetalEnvs :
          (/\ FetchAndStorePrices(env)
           /\ env.key
           /\ env.goldapi_silver \in {None, Some(0)}
           /\ env.metals_dev_silver = Some(95))
          => \E i \in AddedRows("silver") :
                /\ gold'[i].source = "metals.dev"
                /\ gold'[i].price_per_gram = 9500]_vars

----------------------------------------------------------------------------
(* routers/portfolio.py: add_holding, request by request                   *)
(* Each request runs in its own session; it waits at db.commit() and at    *)
(* the memory call, and other requests run meanwhile.                      *)

MaxInflight == 2   \* requests in progress at one time

\* the least free slot
FreeSlot == CHOOSE s \in 1..(MaxInflight + 1) :
               /\ s \notin DOMAIN inflight
               /\ \A t \in 1..(s - 1) : t \in DOMAIN inflight

\* inflight without slot s
Answered(s) == [t \in DOMAIN inflight \ {s} |-> inflight[t]]

\* what clients post: user 2 does not exist
PurchaseDates == {0 - 10, 0}
HoldingPosts ==
    [user_id : 1..2,
     form : {f \in HoldingForms :
                f.asset_identifier \in {"119551", "HDFC Bank"} /\ f.invested_amount > 0},
     purchase_date : PurchaseDates]

\* db_holding = PortfolioHolding(...)
NewHolding(id, post) ==
    [id |-> id, user_id |-> post.user_id,
     asset_type |-> post.form.asset_type,
     asset_identifier |-> post.form.asset_identifier,
     invested_amount |-> post.form.invested_amount,
     current_value |-> post.form.invested_amount,
     units |-> post.form.units, average_cost |-> PerUnit(post.form),
     purchase_date |-> post.purchase_date, last_valued_at |-> now]

\* transaction = Transaction(...)
NewTransaction(id, post) ==
    [id |-> id, user_id |-> post.user_id, transaction_type |-> "buy",
     asset_type |-> post.form.asset_type,
     asset_identifier |-> post.form.asset_identifier,
     units |-> post.form.units, amount |-> post.form.invested_amount,
     price_per_unit |-> PerUnit(post.form),
     transaction_date |-> post.purchase_date]

\* a mutant: the holding is committed on its own before the transaction
CommitBoth_holding_first(post, ok) ==
    IF UserById(post.user_id) = None
    THEN [committed |-> FALSE, holdings |-> holdings, txns |-> txns]
    ELSE IF ok
    THEN [committed |-> TRUE,
          holdings |-> Append(holdings, NewHolding(Len(holdings) + 1, post)),
          txns |-> Append(txns, NewTransaction(Len(txns) + 1, post))]
    ELSE [committed |-> FALSE,
          holdings |-> Append(holdings, NewHolding(Len(holdings) + 1, post)),
          txns |-> txns]

\* await db.commit() with both objects added to the session: the tables
\* after it; the commit fails for a user the foreign key does not find and
\* whenever the database refuses or is not reached (ok = FALSE)
CommitBoth(post, ok) ==
    IF ok /\ UserById(post.user_id) # None
    THEN [committed |-> TRUE,
          holdings |-> Append(holdings, NewHolding(Len(holdings) + 1, post)),
          txns |-> Append(txns, NewTransaction(Len(txns) + 1, post))]
    ELSE [committed |-> FALSE, holdings |-> holdings, txns |-> txns]

\* add_user_memory: an exception of the client is caught and reported
AddUserMemory(ok) ==
    IF ok THEN [success |-> TRUE] ELSE [success |-> FALSE]

\* add_holding up to its db.commit()
BeginAddHolding(post) ==
    /\ Cardinality(DOMAIN inflight) < MaxInflight
    /\ Len(holdings) + Cardinality(DOMAIN inflight) < MaxHoldings
    /\ inflight' = inflight @@
          (FreeSlot :> [op |-> "add_holding", post |-> post, pc |-> "commit",
                        id |-> None])
    /\ UNCHANGED <<now, lastOp, resp, apiVars, newsVars, fdVars, marketVars,
                   folioVars, assetVars, schemeName>>

\* db.commit() of request s
CommitAddHolding(s, ok) ==
    /\ s \in DOMAIN inflight
    /\ inflight[s].op = "add_holding" /\ inflight[s].pc = "commit"
    /\ LET after == CommitBoth(inflight[s].post, ok)
       IN  /\ holdings' = after.holdings
           /\ txns' = after.txns
           /\ IF after.committed
              THEN /\ inflight' = [inflight EXCEPT ![s].pc = "memory",
                                                   ![s].id = Some(Len(holdings) + 1)]
                   /\ UNCHANGED <<lastOp, resp>>
              ELSE /\ inflight' = Answered(s)
                   /\ lastOp' = "add_holding"
                   /\ resp' = [status |-> 500, user_id |-> inflight[s].post.user_id]
    /\ UNCHANGED <<now, apiVars, newsVars, fdVars, marketVars, assetVars,
                   schemeName>>

\* store_investment_action and the answer of request s; the result of
\* add_user_memory is not looked at
StoreInvestmentAction(s, ok) ==
    /\ s \in DOMAIN inflight
    /\ inflight[s].op = "add_holding" /\ inflight[s].pc = "memory"
    /\ AddUserMemory(ok).success \in BOOLEAN
    /\ memCalls' = memCalls + 1
    /\ inflight' = Answered(s)
    /\ lastOp' = "add_holding"
    /\ resp' = [status |-> 200, user_id |-> inflight[s].post.user_id,
                id |-> inflight[s].id[1]]
    /\ UNCHANGED <<now, users, issued, plans, newsVars, fdVars, marketVars,
                   folioVars, assetVars, schemeName>>

InitAddHolding ==
    /\ now = 0 /\ lastOp = "init" /\ resp = [status |-> 0]
    /\ users = SeededUsers /\ issued = {} /\ memCalls = 0 /\ plans = <<>>
    /\ news = <<>> /\ allNews = <<>> /\ uniqueNews = <<>>
    /\ srcs = <<>> /\ fdRates = <<>>
    /\ gold = <<>> /\ macro = <<>>
    /\ holdings = <<>> /\ txns = <<>>
    /\ funds = <<>> /\ etfs = <<>>
    /\ schemeName = <<>>
    /\ inflight = <<>>

NextAddHolding ==
    \/ \E post \in HoldingPosts : BeginAddHolding(post)
    \/ \E s \in 1..MaxInflight, ok \in BOOLEAN : CommitAddHolding(s, ok)
    \/ \E s \in 1..MaxInflight, ok \in BOOLEAN : StoreInvestmentAction(s, ok)

SpecAddHolding == InitAddHolding /\ [][NextAddHolding]_vars

\* the holding and the transaction describe the same purchase
SamePurchase(h, t) ==
    /\ t.transaction_type = "buy"
    /\ t.user_id = h.user_id
    /\ t.asset_type = h.asset_type
    /\ t.asset_identifier = h.asset_identifier
    /\ t.amount = h.invested_amount
    /\ t.units = h.units
    /\ t.transaction_date = h.purchase_date

\* C14: whatever add-holding requests ran or are running, every user has as
\* many holdings as buy transactions and every holding has its transaction
\* with the same user, asset type, identifier, amount, units and date; a
\* request whose commit fails adds neither row; the memory call, failed or
\* not, removes no row and the request is answered with success.
C14_HoldingWithTransaction ==
    /\ [](/\ \A u \in 1..2 :
                Cardinality({i \in DOMAIN holdings : holdings[i].user_id = u})
                = Cardinality({i \in DOMAIN txns :
                                  /\ txns[i].user_id = u
                                  /\ txns[i].transaction_type = "buy"})
          /\ Len(holdings) = Len(txns)
          /\ \A i \in DOMAIN holdings : SamePurchase(holdings[i], txns[i]))
    /\ [][\A s \in 1..MaxInflight :
             /\ (CommitAddHolding(s, FALSE) \/
                 (CommitAddHolding(s, TRUE) /\ s \notin DOMAIN inflight'))
                   => /\ UNCHANGED <<holdings, txns>>
                      /\ resp'.status = 500
             /\ \A ok \in BOOLEAN :
                   StoreInvestmentAction(s, ok)
                      => /\ UNCHANGED <<holdings, txns>>
                         /\ resp'.status = 200]_vars

\* two requests ran interleaved: both have committed and neither has made
\* its memory call, after an earlier request was answered
C14_Witness ==
    /\ lastOp = "add_holding"
    /\ Len(holdings) = 3 /\ Len(txns) = 3
    /\ holdings[2].purchase_date # holdings[3].purchase_date
    /\ DOMAIN inflight = {1, 2}
    /\ \A s \in DOMAIN inflight : inflight[s].pc = "memory"

----------------------------------------------------------------------------
(* routers/auth.py: register, request by request                           *)
(* A request waits at its SELECT, at db.commit() and at the memory call;   *)
(* users.email carries a unique constraint.                                *)

\* the User object register builds
NewUser(id, email, password) ==
    [id |-> id, email |-> email,
     hashed_password |-> get_password_hash(password),
     full_name |-> SignupForm(email).full_name,
     risk_tolerance |-> SignupForm(email).risk_tolerance,
     is_active |-> TRUE]

\* register up to its db.commit(): the SELECT by email and the check
BeginRegister(email, password) ==
    /\ Cardinality(DOMAIN inflight) < MaxInflight
    /\ IF UserByEmail(email) # None
       THEN /\ lastOp' = "register"
            /\ resp' = [status |-> 400, token |-> None, user |-> None]
            /\ UNCHANGED inflight
       ELSE /\ inflight' = inflight @@
                  (FreeSlot :> [op |-> "register", email |-> email,
                                password |-> password, pc |-> "commit",
                                id |-> None])
            /\ UNCHANGED <<lastOp, resp>>
    /\ UNCHANGED <<now, apiVars, newsVars, fdVars, marketVars, folioVars,
                   assetVars, schemeName>>

\* db.commit() of request s: the INSERT is refused with IntegrityError when a
\* row with the email exists by now; register does not catch it
CommitRegister(s) ==
    /\ s \in DOMAIN inflight
    /\ inflight[s].op = "register" /\ inflight[s].pc = "commit"
    /\ IF UserByEmail(inflight[s].email) # None
       THEN /\ inflight' = Answered(s)
            /\ lastOp' = "register"
            /\ resp' = [status |-> 500, token |-> None, user |-> None]
            /\ UNCHANGED users
       ELSE /\ users' = Append(users, NewUser(Len(users) + 1, inflight[s].email,
                                              inflight[s].password))
            /\ inflight' = [inflight EXCEPT ![s].pc = "memory",
                                            ![s].id = Some(Len(users) + 1)]
            /\ UNCHANGED <<lastOp, resp>>
    /\ UNCHANGED <<now, issued, memCalls, plans, newsVars, fdVars, marketVars,
                   folioVars, assetVars, schemeName>>

\* the memory entry, the token and the answer of request s
FinishRegister(s, ok) ==
    /\ s \in DOMAIN inflight
    /\ inflight[s].op = "register" /\ inflight[s].pc = "memory"
    /\ AddUserMemory(ok).success \in BOOLEAN
    /\ LET user  == UserById(inflight[s].id[1])[1]
           token == create_access_token(user.id)
       IN  /\ memCalls' = memCalls + 1
           /\ issued' = issued \cup {[token |-> token, uid |-> user.id]}
           /\ lastOp' = "register"
           /\ resp' = [status |-> 200, token |-> Some(token),
                       user |-> Some(UserResponse(user))]
    /\ inflight' = Answered(s)
    /\ UNCHANGED <<now, users, plans, newsVars, fdVars, marketVars, folioVars,
                   assetVars, schemeName>>

InitRegister ==
    /\ now = 0 /\ lastOp = "init" /\ resp = [status |-> 0]
    /\ ApiStart
    /\ BackgroundStart

NextRegister ==
    \/ \E email \in Emails, password \in Passwords : BeginRegister(email, password)
    \/ \E s \in 1..MaxInflight : CommitRegister(s)
    \/ \E s \in 1..MaxInflight, ok \in BOOLEAN : FinishRegister(s, ok)

SpecRegister == InitRegister /\ [][NextRegister]_vars

\* C15: at most one user row exists per email, and a register request for
\* an email that has a row by the time the request is decided, sequential or
\* concurrent, is answered with the duplicate-email response (400), creates
\* no user, issues no token and writes no memory entry.
C15_RegisterKeepsEmailsUnique ==
    /\ [](\A i, j \in DOMAIN users : users[i].email = users[j].email => i = j)
    /\ [][\A s \in 1..MaxInflight :
             (CommitRegister(s) /\ UserByEmail(inflight[s].email) # None)
                => /\ resp'.status = 400
                   /\ UNCHANGED <<users, issued, memCalls>>]_vars

----------------------------------------------------------------------------
(* services/ai_engine/openrouter_client.py and the requests that wait for  *)
(* it: POST /recommend/invest, /recommend/invest/guest, /portfolio/analyze *)

\* what the gateway does with one POST /chat/completions: a 200 whose
\* content is JSON, a 200 whose content is other text, a 200 without
\* choices, a status that is not 2xx, no response at all
GatewayReplies == {"json", "text", "no_choices", "http_error", "network_error"}

\* a mutant: a failed call is answered with a text made up on the spot
Complete_swallowing(reply) ==
    IF reply \in {"json", "text"}
    THEN [raised |-> FALSE, content |-> reply, posts |-> 1]
    ELSE [raised |-> FALSE, content |-> "text", posts |-> 1]

\* OpenRouterClient.complete: one POST; raise_for_status, a transport error
\* and a body without choices all raise
Complete(reply) ==
    IF reply \in {"json", "text"}
    THEN [raised |-> FALSE, content |-> reply, posts |-> 1]
    ELSE [raised |-> TRUE, content |-> "", posts |-> 1]

\* generate_investment_suggestion, as one of AiOutcomes
GenerateInvestmentSuggestion(reply) ==
    LET response == Complete(reply)
    IN  IF response.raised THEN "raise"
        ELSE IF response.content = "json" THEN "json"
        ELSE "unparsed"

\* OpenRouterClient.analyze_portfolio
AnalyzePortfolioWithAi(reply) ==
    LET response == Complete(reply)
    IN  IF response.raised THEN "raise"
        ELSE IF response.content = "json" THEN "json"
        ELSE "raw_analysis"

AiRequestKinds == {"invest", "guest", "analyze"}

\* a request up to its call of the gateway
BeginAiRequest(kind, user_id, amount, risk) ==
    /\ Cardinality(DOMAIN inflight) < MaxInflight
    /\ IF kind # "analyze" /\ ~ AmountValid(amount)
       THEN /\ lastOp' = kind
            /\ resp' = NoPlanResponse(422)
            /\ UNCHANGED <<memCalls, inflight>>
       ELSE IF kind # "guest" /\ UserById(user_id) = None
       THEN /\ lastOp' = kind
            /\ resp' = NoPlanResponse(404)
            /\ UNCHANGED <<memCalls, inflight>>
       ELSE /\ kind # "guest" => memCalls < MaxMemCalls
            /\ memCalls' = IF kind = "guest" THEN memCalls ELSE memCalls + 1
            /\ inflight' = inflight @@
                  (FreeSlot :> [op |-> kind,
                                user_id |-> IF kind = "guest" THEN 0 ELSE user_id,
                                amount |-> IF kind = "analyze" THEN 0 ELSE amount,
                                risk |-> IF kind = "invest" /\ risk = ""
                                         THEN UserById(user_id)[1].risk_tolerance
                                         ELSE risk,
                                pc |-> "ai"])
            /\ UNCHANGED <<lastOp, resp>>
    /\ UNCHANGED <<now, users, issued, plans, newsVars, fdVars, marketVars,
                   folioVars, assetVars, schemeName>>

\* the gateway replies to request s, and the request runs to its end
GatewayAnswers(s, reply) ==
    /\ s \in DOMAIN inflight
    /\ inflight[s].op \in AiRequestKinds /\ inflight[s].pc = "ai"
    /\ LET r  == inflight[s]
           ai == IF r.op = "analyze" THEN AnalyzePortfolioWithAi(reply)
                 ELSE GenerateInvestmentSuggestion(reply)
       IN  /\ lastOp' = r.op
           /\ inflight' = Answered(s)
           /\ IF ai = "raise"
              THEN /\ resp' = NoPlanResponse(500)
                   /\ UNCHANGED plans
              ELSE IF r.op = "invest"
              THEN /\ Len(plans) < MaxPlans
                   /\ plans' = Append(plans, NewPlan(r.user_id, r.amount, r.risk, ai))
                   /\ resp' = [status |-> 200, user_id |-> r.user_id,
                               id |-> Some(Len(plans) + 1),
                               valid_until |-> Some(now + PlanValidDays)]
              ELSE /\ resp' = NoPlanResponse(200)
                   /\ UNCHANGED plans
    /\ UNCHANGED <<now, users, issued, memCalls, newsVars, fdVars, marketVars,
                   folioVars, assetVars, schemeName>>

InitAi ==
    /\ now = 0 /\ lastOp = "init" /\ resp = [status |-> 0]
    /\ users = SeededUsers /\ issued = {} /\ memCalls = 0 /\ plans = <<>>
    /\ news = <<>> /\ allNews = <<>> /\ uniqueNews = <<>>
    /\ srcs = SeededFdSources /\ fdRates = StoredFdRates
    /\ gold = <<>> /\ macro = <<>>
    /\ holdings = StoredHoldings /\ txns = StoredTransactions
    /\ funds = StoredFunds /\ etfs = StoredEtfs
    /\ schemeName = <<>>
    /\ inflight = <<>>

NextAi ==
    \/ \E kind \in AiRequestKinds, u \in 1..2, a \in Amounts, risk \in {"", "high"} :
          BeginAiRequest(kind, u, a, risk)
    \/ \E s \in 1..MaxInflight, reply \in GatewayReplies : GatewayAnswers(s, reply)

SpecAi == InitAi /\ [][NextAi]_vars

\* C16: when the call of the AI gateway fails (a status that is not 2xx, or
\* no response), the authenticated recommendation, the guest recommendation
\* and the portfolio analysis end with an error response: the request is
\* over after the one failed call, no plan row is created and no stored row
\* is changed.
C16_GatewayFailureFailsLoudly ==
    [][\A s \in 1..MaxInflight : \A reply \in {"http_error", "network_error"} :
          GatewayAnswers(s, reply) =>
             /\ resp'.status = 500
             /\ resp'.id = None
             /\ Complete(reply).posts = 1
             /\ s \notin DOMAIN inflight'
             /\ UNCHANGED <<plans, users, issued, memCalls, news, srcs, fdRates,
                            gold, macro, holdings, txns, funds, etfs>>]_vars

\* an authenticated recommendation ended with an error after the gateway
\* failed, and the plan an earlier request stored is as it was
C16_Witness ==
    /\ lastOp = "invest"
    /\ resp.status = 500
    /\ Len(plans) = 1
    /\ memCalls = 2
    /\ inflight = <<>>

----------------------------------------------------------------------------
(* tasks/celery_app.py and tasks/data_refresh_tasks.py: beat and worker    *)
(* Task names are written without their common prefix                      *)
(* "app.tasks.data_refresh_tasks."; what a task does to the tables is      *)
(* modelled by the specification of that task.                             *)

\* celery_app.conf.beat_schedule: entry -> task
beat_schedule ==
    [e \in {"refresh-mf-navs-afternoon", "refresh-mf-navs-night",
            "refresh-fd-rates-daily", "refresh-metals-morning",
            "refresh-metals-evening", "refresh-news-morning",
            "refresh-news-afternoon", "refresh-news-evening",
            "refresh-macro-daily", "refresh-etf-prices-daily",
            "update-portfolio-values-daily", "generate-weekly-digest",
            "cleanup-old-data-weekly"} |->
        CASE e \in {"refresh-mf-navs-afternoon", "refresh-mf-navs-night"}
                -> "refresh_mf_navs"
          [] e = "refresh-fd-rates-daily" -> "refresh_fd_rates"
          [] e \in {"refresh-metals-morning", "refresh-metals-evening"}
                -> "refresh_gold_prices"
          [] e \in {"refresh-news-morning", "refresh-news-afternoon",
                    "refresh-news-evening"} -> "refresh_news"
          [] e = "refresh-macro-daily" -> "refresh_macro_indicators"
          [] e = "refresh-etf-prices-daily" -> "refresh_etf_prices"
          [] e = "update-portfolio-values-daily" -> "update_portfolio_values"
          [] e = "generate-weekly-digest" -> "generate_weekly_digest"
          [] e = "cleanup-old-data-weekly" -> "cleanup_old_data"]

\* the @shared_task functions of the one module the worker includes
RegisteredTasks ==
    {"refresh_mf_navs", "refresh_fd_rates", "refresh_gold_prices",
     "refresh_news", "refresh_macro_indicators", "refresh_all_data",
     "discover_new_fd_sources", "cleanup_old_data", "update_portfolio_values"}

\* beat finds the entry due and sends its task message to the broker
BeatDispatch(entry) ==
    /\ Cardinality(DOMAIN inflight) < MaxInflight
    /\ inflight' = inflight @@
          (FreeSlot :> [op |-> "task", task |-> beat_schedule[entry],
                        entry |-> entry, pc |-> "queued"])
    /\ UNCHANGED <<now, lastOp, resp, apiVars, newsVars, fdVars, marketVars,
                   folioVars, assetVars, schemeName>>

\* a worker takes message s: a registered task runs, any other name is
\* answered with NotRegistered and the message is dropped
WorkerExecute(s) ==
    /\ s \in DOMAIN inflight
    /\ inflight[s].op = "task" /\ inflight[s].pc = "queued"
    /\ inflight' = Answered(s)
    /\ IF inflight[s].task \in RegisteredTasks
       THEN /\ lastOp' = inflight[s].task
            /\ resp' = [status |-> "executed", entry |-> inflight[s].entry]
       ELSE /\ lastOp' = "worker"
            /\ resp' = [status |-> "NotRegistered", entry |-> inflight[s].entry]
    /\ UNCHANGED <<now, apiVars, newsVars, fdVars, marketVars, folioVars,
                   assetVars, schemeName>>

InitBeat ==
    /\ now = 0 /\ lastOp = "init" /\ resp = [status |-> "init", entry |-> ""]
    /\ ApiStart
    /\ BackgroundStart

NextBeat ==
    \/ \E entry \in DOMAIN beat_schedule : BeatDispatch(entry)
    \/ \E s \in 1..MaxInflight : WorkerExecute(s)

SpecBeat == InitBeat /\ [][NextBeat]_vars

\* beat and the worker keep running: every entry comes due again and again
\* (the bound on queued messages is the only thing that delays it), and a
\* queued message is taken
SpecBeatFair ==
    /\ SpecBeat
    /\ \A entry \in DOMAIN beat_schedule : SF_vars(BeatDispatch(entry))
    /\ \A s \in 1..MaxInflight : WF_vars(WorkerExecute(s))

\* the tasks of the periodic jobs: NAV refresh, FD rates, gold and silver,
\* news, macro, ETF prices, portfolio revaluation, weekly full resync,
\* monthly FD-source discovery, weekly cleanup
PeriodicJobs ==
    {"refresh_mf_navs", "refresh_fd_rates", "refresh_gold_prices",
     "refresh_news", "refresh_macro_indicators", "refresh_etf_prices",
     "update_portfolio_values", "refresh_all_data", "discover_new_fd_sources",
     "cleanup_old_data"}

\* C17: every periodic job has a schedule entry, every task name of a
\* schedule entry is a defined task, and with beat and a worker running
\* every periodic job is executed again and again.
C17_EveryJobDispatched ==
    /\ [](\A job \in PeriodicJobs :
             \E entry \in DOMAIN beat_schedule : beat_schedule[entry] = job)
    /\ [](\A entry \in DOMAIN beat_schedule :
             beat_schedule[entry] \in RegisteredTasks)
    /\ \A job \in PeriodicJobs :
          []<>(lastOp = job /\ resp.status = "executed")


----------------------------------------------------------------------------
(* Duplicate execution of the background jobs.  The broker hands a message *)
(* to a worker until it is acknowledged, so a job may run a second time on *)
(* the same message.  The message carries what the upstream services       *)
(* answer to this job; a redelivery follows within the same day of the     *)
(* clock; one message is outstanding at a time and one is queued a day.    *)
(* services/data_scrapers/mf_data_service.py, etf_data_service.py          *)

MaxDeliveries == 2   \* executions of one message
MaxTaskClock  == 1   \* days the redelivery specification runs for

\* str(scheme.get("schemeCode")): a missing code becomes the text "None"
SchemeCodeStr(scheme) ==
    IF scheme.schemeCode = None THEN "None" ELSE scheme.schemeCode[1]

\* MutualFund(...) as _process_scheme_batch creates it
NewScheme(table, scheme_code, scheme_name) ==
    [id |-> Len(table) + 1, scheme_code |-> scheme_code,
     scheme_name |-> scheme_name, amc_name |-> ExtractAmc(scheme_name),
     category |-> CategorizeScheme(scheme_name),
     sub_category |-> DetermineSubCategory(scheme_name),
     plan_type |-> DeterminePlanType(scheme_name),
     nav |-> 0, nav_date |-> now, is_active |-> TRUE, updated_at |-> now]

\* the assignments to an existing scheme; onupdate stamps a row that changed
UpdatedScheme(row, scheme_name) ==
    LET new == [row EXCEPT !.scheme_name = scheme_name,
                           !.plan_type = DeterminePlanType(scheme_name),
                           !.category = CategorizeScheme(scheme_name),
                           !.sub_category = DetermineSubCategory(scheme_name),
                           !.amc_name = ExtractAmc(scheme_name),
                           !.is_active = TRUE]
    IN  IF new = row THEN row ELSE [new EXCEPT !.updated_at = now]

\* a mutant: every scheme of the listing is inserted, stored or not
RECURSIVE ProcessSchemeBatch_insert_only(_, _)
ProcessSchemeBatch_insert_only(table, schemes) ==
    IF schemes = <<>> THEN table
    ELSE LET scheme_code == SchemeCodeStr(Head(schemes))
             scheme_name == Head(schemes).schemeName
         IN  IF scheme_code = "" \/ scheme_name = ""
             THEN ProcessSchemeBatch_insert_only(table, Tail(schemes))
             ELSE ProcessSchemeBatch_insert_only(
                      Append(table, NewScheme(table, scheme_code, scheme_name)),
                      Tail(schemes))

\* _process_scheme_batch: the select sees the rows this batch added before
\* (the session flushes before a query)
RECURSIVE ProcessSchemeBatch(_, _)
ProcessSchemeBatch(table, schemes) ==
    IF schemes = <<>> THEN table
    ELSE LET scheme_code == SchemeCodeStr(Head(schemes))
             scheme_name == Head(schemes).schemeName
             existing == {i \in DOMAIN table :
                             table[i].scheme_code = scheme_code}
         IN  IF scheme_code = "" \/ scheme_name = ""
             THEN ProcessSchemeBatch(table, Tail(schemes))
             ELSE IF existing # {}
             THEN ProcessSchemeBatch(
                      [i \in DOMAIN table |->
                          IF i \in existing
                          THEN UpdatedScheme(table[i], scheme_name)
                          ELSE table[i]],
                      Tail(schemes))
             ELSE ProcessSchemeBatch(
                      Append(table, NewScheme(table, scheme_code, scheme_name)),
                      Tail(schemes))

\* sync_all_schemes: the batches follow one another, an empty listing is
\* skipped
SyncAllSchemes(table, schemes) ==
    IF schemes = <<>> THEN table ELSE ProcessSchemeBatch(table, schemes)

COMMON_ETFS ==
    <<[symbol |-> "GOLDBEES.NS", name |-> "Nippon India ETF Gold BeES",
       underlying |-> "gold"],
      [symbol |-> "GOLDCASE.NS", name |-> "Axis Gold ETF",
       underlying |-> "gold"],
      [symbol |-> "HDFCGOLD.NS", name |-> "HDFC Gold ETF",
       underlying |-> "gold"],
      [symbol |-> "ICICISILVER.NS", name |-> "ICICI Prudential Silver ETF",
       underlying |-> "silver"],
      [symbol |-> "SILVERBEES.NS", name |-> "Nippon India Silver ETF",
       underlying |-> "silver"],
      [symbol |-> "SILVERETF.NS", name |-> "HDFC Silver ETF",
       underlying |-> "silver"],
      [symbol |-> "NIFTYBEES.NS", name |-> "Nippon India ETF Nifty BeES",
       underlying |-> "nifty50"],
      [symbol |-> "JUNIORBEES.NS", name |-> "Nippon India ETF Junior BeES",
       underlying |-> "niftynext50"],
      [symbol |-> "BANKBEES.NS", name |-> "Nippon India ETF Bank BeES",
       underlying |-> "banknifty"],
      [symbol |-> "SETFNIF50.NS", name |-> "SBI ETF Nifty 50",
       underlying |-> "nifty50"],
      [symbol |-> "SETFNIFBK.NS", name |-> "SBI ETF Nifty Bank",
       underlying |-> "banknifty"],
      [symbol |-> "ICICIB22.NS", name |-> "ICICI Prudential Nifty ETF",
       underlying |-> "nifty50"],
      [symbol |-> "KOTAKNIFTY.NS", name |-> "Kotak Nifty ETF",
       underlying |-> "nifty50"],
      [symbol |-> "HDFCNIFETF.NS", name |-> "HDFC Nifty 50 ETF",
       underlying |-> "nifty50"],
      [symbol |-> "ITBEES.NS", name |-> "Nippon India ETF Nifty IT",
       underlying |-> "niftyit"],
      [symbol |-> "PSUBNKBEES.NS", name |-> "Nippon India ETF PSU Bank BeES",
       underlying |-> "psubank"],
      [symbol |-> "INFRABES.NS", name |-> "Nippon India ETF Infra BeES",
       underlying |-> "infra"],
      [symbol |-> "CONSUMBEES.NS", name |-> "Nippon India ETF Consumption",
       underlying |-> "consumption"]>>

\* ETF(...) as sync_etf_list creates it
NewEtf(table, etf_info) ==
    [id |-> Len(table) + 1, symbol |-> etf_info.symbol,
     name |-> etf_info.name, underlying |-> etf_info.underlying,
     nav |-> 0, market_price |-> 0, premium_discount |-> 0,
     exchange |-> "NSE", updated_at |-> now]

UpdatedEtf(row, etf_info) ==
    LET new == [row EXCEPT !.name = etf_info.name,
                           !.underlying = etf_info.underlying]
    IN  IF new = row THEN row ELSE [new EXCEPT !.updated_at = now]

\* the loop of sync_etf_list over a roster
RECURSIVE SyncEtfRoster(_, _)
SyncEtfRoster(table, roster) ==
    IF roster = <<>> THEN table
    ELSE LET etf_info == Head(roster)
             existing == {i \in DOMAIN table :
                             table[i].symbol = etf_info.symbol}
         IN  IF existing # {}
             THEN SyncEtfRoster(
                      [i \in DOMAIN table |->
                          IF i \in existing
                          THEN UpdatedEtf(table[i], etf_info) ELSE table[i]],
                      Tail(roster))
             ELSE SyncEtfRoster(Append(table, NewEtf(table, etf_info)),
                                Tail(roster))

\* sync_etf_list
SyncEtfList(table) == SyncEtfRoster(table, COMMON_ETFS)

\* what the scheme listing of the upstream API can hold: nothing, two
\* schemes, the same code twice, an entry without code and one without name
SchemeListings ==
    {<<>>,
     <<[schemeCode |-> Some("119551"),
        schemeName |-> "HDFC Liquid Fund - Direct Plan"],
       [schemeCode |-> Some("120503"),
        schemeName |-> "Axis Bluechip Fund - Regular Plan"]>>,
     <<[schemeCode |-> Some("119551"), schemeName |-> "HDFC Liquid Fund"],
       [schemeCode |-> Some("119551"),
        schemeName |-> "HDFC Liquid Fund - Direct Plan"]>>,
     <<[schemeCode |-> None, schemeName |-> "SBI Gold Fund"],
       [schemeCode |-> Some("120716"), schemeName |-> ""]>>}

NewsUpstreams ==
    {[listing |-> l, failed |-> f, ai |-> a] :
        l \in {<<[url |-> "https://news.in/a", s |-> 1]>>,
               <<[url |-> "https://news.in/a", s |-> 1],
                 [url |-> "https://news.in/b", s |-> 2]>>},
        f \in {{}, {1}},
        a \in {"scored", "raise"}}

FdUpstreams ==
    {<<[ok |-> FALSE, rates |-> <<>>], [ok |-> FALSE, rates |-> <<>>],
       [ok |-> FALSE, rates |-> <<>>]>>,
     <<[ok |-> TRUE, rates |-> <<TierOneYear>>], [ok |-> FALSE, rates |-> <<>>],
       [ok |-> TRUE, rates |-> <<TierOneYear>>]>>,
     <<[ok |-> TRUE, rates |-> <<TierOneYear, TierBare>>],
       [ok |-> TRUE, rates |-> <<TierOneYearRaised>>],
       [ok |-> FALSE, rates |-> <<>>]>>}

MetalUpstreams ==
    {env \in MetalEnvs :
        /\ env.metals_dev_gold = None /\ env.metals_dev_silver = None
        /\ env.forex # None /\ env.metals_live # Some(0)
        /\ env.goldapi_silver # Some(0)
        /\ env.key => env.goldapi_gold # None}

\* the jobs and what the upstream services answer to each
TaskUpstreams ==
    [sync_all_schemes |-> SchemeListings, sync_etf_list |-> {<<>>},
     refresh_news |-> NewsUpstreams, cleanup_old_data |-> CleanupWindows,
     refresh_fd_rates |-> FdUpstreams, refresh_gold_prices |-> MetalUpstreams]

\* apply_async: the message waits in the broker
QueueTask(task, upstream) ==
    /\ inflight = <<>>
    /\ lastOp \in {"init", "tick"}
    /\ inflight' = (FreeSlot :> [op |-> "task", pc |-> "queued", task |-> task,
                                 upstream |-> upstream, runs |-> 0])
    /\ lastOp' = "apply_async"
    /\ resp' = [status |-> "queued"]
    /\ UNCHANGED <<now, apiVars, newsVars, fdVars, marketVars, folioVars,
                   assetVars, schemeName>>

\* the message of slot s is handed to a worker
Deliverable(s, task) ==
    /\ s \in DOMAIN inflight
    /\ inflight[s].op = "task" /\ inflight[s].task = task
    /\ inflight[s].runs < MaxDeliveries

Delivered(s) == [inflight EXCEPT ![s].runs = @ + 1, ![s].pc = "executed"]

RunSyncAllSchemes(s) ==
    /\ Deliverable(s, "sync_all_schemes")
    /\ funds' = SyncAllSchemes(funds, inflight[s].upstream)
    /\ inflight' = Delivered(s)
    /\ lastOp' = "sync_all_schemes"
    /\ resp' = [status |-> "success", total |-> Len(inflight[s].upstream)]
    /\ UNCHANGED <<now, apiVars, newsVars, fdVars, marketVars, folioVars,
                   etfs, schemeName>>

RunSyncEtfList(s) ==
    /\ Deliverable(s, "sync_etf_list")
    /\ etfs' = SyncEtfList(etfs)
    /\ inflight' = Delivered(s)
    /\ lastOp' = "sync_etf_list"
    /\ resp' = [status |-> "success", total |-> Len(COMMON_ETFS)]
    /\ UNCHANGED <<now, apiVars, newsVars, fdVars, marketVars, folioVars,
                   funds, schemeName>>

\* refresh_news: fetch_and_analyze_news on the answers of the message
RunRefreshNews(s) ==
    /\ Deliverable(s, "refresh_news")
    /\ LET up          == inflight[s].upstream
           all_news    == GatherNews(up.listing, up.failed, 1)
           unique_news == DeduplicateByUrl(all_news, {})
           analyzed    == AnalyzeSentimentBatch(unique_news, up.ai)
       IN  /\ allNews' = all_news
           /\ uniqueNews' = unique_news
           /\ IF unique_news = <<>>
              THEN /\ news' = news
                   /\ resp' = [status |-> 200, news_count |-> 0]
              ELSE IF up.ai = "raise"
              THEN /\ news' = news
                   /\ resp' = [status |-> 500, news_count |-> 0]
              ELSE /\ news' = StoreNews(news, analyzed)
                   /\ resp' = [status |-> 200, news_count |-> Len(analyzed)]
    /\ inflight' = Delivered(s)
    /\ lastOp' = "refresh_news"
    /\ UNCHANGED <<now, apiVars, fdVars, marketVars, folioVars, assetVars,
                   schemeName>>

RunCleanupOldData(s) ==
    /\ Deliverable(s, "cleanup_old_data")
    /\ LET days == inflight[s].upstream
       IN  /\ gold' = DeleteOlder(gold, "recorded_at", Cutoff(days))
           /\ news' = DeleteOlder(news, "scraped_at", Cutoff(days))
           /\ macro' = DeleteOlder(macro, "recorded_at", MacroCutoff(days))
           /\ resp' = [status |-> "success", days |-> days]
    /\ inflight' = Delivered(s)
    /\ lastOp' = "cleanup_old_data"
    /\ UNCHANGED <<now, apiVars, allNews, uniqueNews, fdVars, folioVars,
                   assetVars, schemeName>>

\* refresh_fd_rates: scrape_all_fd_rates on the answers of the message
RunRefreshFdRates(s) ==
    /\ Deliverable(s, "refresh_fd_rates")
    /\ LET outs      == inflight[s].upstream
           all_rates == AllRates(outs, 1)
       IN  /\ srcs' = [i \in DOMAIN srcs |->
                          IF i \in ActiveFdSources
                          THEN ScrapedSource(srcs[i], outs[i]) ELSE srcs[i]]
           /\ fdRates' = StoreFdRates(fdRates, all_rates)
           /\ resp' = [status |-> 200,
                       total_sources |-> Cardinality(ActiveFdSources),
                       total_rates_found |-> Len(all_rates)]
    /\ inflight' = Delivered(s)
    /\ lastOp' = "refresh_fd_rates"
    /\ UNCHANGED <<now, apiVars, newsVars, marketVars, folioVars, assetVars,
                   schemeName>>

\* refresh_gold_prices: fetch_and_store_prices on the answers of the message
RunRefreshGoldPrices(s) ==
    /\ Deliverable(s, "refresh_gold_prices")
    /\ LET env == inflight[s].upstream
           afterGold == MetalStep(gold, <<>>, "gold", FetchGoldPrice(env))
           afterSilver == MetalStep(afterGold.table, afterGold.results,
                                    "silver", FetchSilverPrice(env))
       IN  /\ gold' = afterSilver.table
           /\ resp' = [status |-> 0, results |-> afterSilver.results]
    /\ inflight' = Delivered(s)
    /\ lastOp' = "refresh_gold_prices"
    /\ UNCHANGED <<now, apiVars, newsVars, fdVars, macro, folioVars,
                   assetVars, schemeName>>

\* the worker acknowledges a message it has executed
Acknowledge(s) ==
    /\ s \in DOMAIN inflight
    /\ inflight[s].op = "task" /\ inflight[s].runs >= 1
    /\ inflight' = Answered(s)
    /\ lastOp' = "ack"
    /\ resp' = [status |-> "acknowledged"]
    /\ UNCHANGED <<now, apiVars, newsVars, fdVars, marketVars, folioVars,
                   assetVars, schemeName>>

\* a scheme an earlier sync stored under an older name, priced since
SyncedFunds ==
    <<[NewScheme(<<>>, "119551", "HDFC Cash Fund") EXCEPT
          !.nav = 100, !.nav_date = 0 - 1, !.updated_at = 0 - 1]>>

\* an ETF an earlier sync stored, renamed in the roster and priced since
SyncedEtfs ==
    <<[id |-> 1, symbol |-> "GOLDBEES.NS", name |-> "Gold BeES",
       underlying |-> "gold", nav |-> 60, market_price |-> 61,
       premium_discount |-> 2, exchange |-> "NSE", updated_at |-> 0 - 1]>>

\* prices of which the first is older than the default window
AgedMetalPrices ==
    [i \in DOMAIN StoredMetalPrices |->
        IF i = 1 THEN [StoredMetalPrices[i] EXCEPT !.recorded_at = 0 - 91]
        ELSE StoredMetalPrices[i]]

InitRedelivery ==
    /\ now = 0 /\ lastOp = "init" /\ resp = [status |-> 0]
    /\ ApiStart
    /\ news = StoredNews(90) /\ allNews = <<>> /\ uniqueNews = <<>>
    /\ srcs = SeededFdSources /\ fdRates = StoredFdRates
    /\ gold = AgedMetalPrices
    /\ macro = StoredMacro(366, 91)
    /\ holdings = <<>> /\ txns = <<>>
    /\ funds \in {<<>>, SyncedFunds}
    /\ etfs = SyncedEtfs
    /\ schemeName = <<>>
    /\ inflight = <<>>

NextRedelivery ==
    \/ \E task \in DOMAIN TaskUpstreams :
          \E upstream \in TaskUpstreams[task] : QueueTask(task, upstream)
    \/ \E s \in 1..MaxInflight : RunSyncAllSchemes(s)
    \/ \E s \in 1..MaxInflight : RunSyncEtfList(s)
    \/ \E s \in 1..MaxInflight : RunRefreshNews(s)
    \/ \E s \in 1..MaxInflight : RunCleanupOldData(s)
    \/ \E s \in 1..MaxInflight : RunRefreshFdRates(s)
    \/ \E s \in 1..MaxInflight : RunRefreshGoldPrices(s)
    \/ \E s \in 1..MaxInflight : Acknowledge(s)
    \/ (inflight = <<>> /\ Tick(MaxTaskClock))

SpecRedelivery == InitRedelivery /\ [][NextRedelivery]_vars

\* rows that agree in every column outside the given ones
SameRowBut(r, q, columns) ==
    /\ DOMAIN r = DOMAIN q
    /\ \A c \in DOMAIN r \ columns : r[c] = q[c]

\* the same rows in the same order, timestamps aside
SameRows(old, new, stamps) ==
    /\ Len(new) = Len(old)
    /\ \A i \in DOMAIN old : SameRowBut(old[i], new[i], stamps)

\* the last n rows of old are appended once more, with new ids and stamps
AppendsAgain(old, new, n, stamps) ==
    /\ n <= Len(old)
    /\ Len(new) = Len(old) + n
    /\ SubSeq(new, 1, Len(old)) = old
    /\ \A k \in 1..n :
          SameRowBut(old[Len(old) - n + k], new[Len(old) + k],
                     stamps \cup {"id"})

\* metals for which a fetch of the environment yields a price
FetchedMetals(env) ==
    (IF FetchGoldPrice(env) # None THEN 1 ELSE 0)
    + (IF FetchSilverPrice(env) # None THEN 1 ELSE 0)

Redelivered(s) == s \in DOMAIN inflight /\ inflight[s].runs >= 1

\* C18: when a message is executed again with the same upstream answers, the
\* scheme sync, the ETF roster sync, the news refresh and the cleanup leave
\* every table as the first execution left it (same row counts, same values
\* outside the timestamps), while the FD refresh and the gold/silver refresh
\* append once more the rows the first execution appended.
C18_RedeliveryIdempotentOrAppending ==
    [][\A s \in DOMAIN inflight :
          /\ (Redelivered(s) /\ (\/ RunSyncAllSchemes(s) \/ RunSyncEtfList(s)
                                 \/ RunRefreshNews(s) \/ RunCleanupOldData(s)))
             => /\ SameRows(funds, funds', {"nav_date", "updated_at"})
                /\ SameRows(etfs, etfs', {"updated_at"})
                /\ SameRows(news, news', {"published_at", "scraped_at"})
                /\ SameRows(gold, gold', {"recorded_at"})
                /\ SameRows(macro, macro', {"recorded_at"})
                /\ SameRows(fdRates, fdRates', {"scraped_at"})
          /\ (Redelivered(s) /\ RunRefreshFdRates(s))
             => AppendsAgain(fdRates, fdRates',
                             Len(AllRates(inflight[s].upstream, 1)),
                             {"scraped_at"})
          /\ (Redelivered(s) /\ RunRefreshGoldPrices(s))
             => AppendsAgain(gold, gold', FetchedMetals(inflight[s].upstream),
                             {"recorded_at"})]_vars

\* a scheme listing that renames a stored scheme and adds another has been
\* executed twice, after an FD refresh of the day before appended its rates
\* twice
C18_Witness ==
    /\ 1 \in DOMAIN inflight /\ inflight[1].op = "task"
    /\ inflight[1].task = "sync_all_schemes" /\ inflight[1].runs = 2
    /\ Len(funds) = 2 /\ funds[1].nav = 100
    /\ funds[1].scheme_name = "HDFC Liquid Fund - Direct Plan"
    /\ Len(fdRates) = 1 + 2 * 3


----------------------------------------------------------------------------
(* services/data_scrapers/news_scraper.py                                  *)
(* scrape_all_sources starts one crawl per source and waits for all of     *)
(* them with asyncio.gather(return_exceptions=True); the crawls finish in  *)
(* any order.                                                              *)

INDIA_FINANCIAL_NEWS_SOURCES ==
    <<[name |-> "Moneycontrol Markets", priority |-> 1],
      [name |-> "Economic Times Markets", priority |-> 1],
      [name |-> "LiveMint Money", priority |-> 2],
      [name |-> "RBI Press Releases", priority |-> 1],
      [name |-> "Business Standard Markets", priority |-> 2],
      [name |-> "NDTV Profit", priority |-> 3],
      [name |-> "Value Research", priority |-> 2]>>

Priorities == <<1, 2, 3>>

\* sorted(sources, key=priority): a stable sort, sources of one priority keep
\* the order of the list
RECURSIVE SortedByPriority(_, _)
SortedByPriority(sources, k) ==
    IF k > Len(Priorities) THEN <<>>
    ELSE SelectSeq(sources, LAMBDA x : x.priority = Priorities[k])
         \o SortedByPriority(sources, k + 1)

\* sorted(...)[:max_sources]
SortedSources(max_sources) ==
    Limit(SortedByPriority(INDIA_FINANCIAL_NEWS_SOURCES, 1), max_sources)

\* the values of max_sources the scrape is called with (5 is the default)
ScrapeSizes == {2, 5}

\* an item as the extraction returns it: the model's JSON may lack the url
ExtractedUrls == {None, Some("https://news.in/a"), Some("https://news.in/b")}

\* _extract_news_with_llm tags every item with the name of its source
SourceItem(url, source) == [url |-> url, source |-> source.name]

\* how the crawl of one source ends: an exception leaves the coroutine, the
\* crawl or the extraction fails and is caught (no items), or items come back
CrawlOutcomes(source) ==
    {[raised |-> TRUE, items |-> <<>>], [raised |-> FALSE, items |-> <<>>]}
    \cup {[raised |-> FALSE, items |-> <<SourceItem(u, source)>>] :
             u \in ExtractedUrls}
    \cup {[raised |-> FALSE,
           items |-> <<SourceItem(Some("https://news.in/a"), source),
                       SourceItem(Some("https://news.in/b"), source)>>]}

\* the loop over results: an exception is logged and skipped
RECURSIVE ExtendAllNews(_, _)
ExtendAllNews(results, i) ==
    IF i > Len(results) THEN <<>>
    ELSE (IF results[i][1].raised THEN <<>> ELSE results[i][1].items)
         \o ExtendAllNews(results, i + 1)

\* "Deduplicate by URL": item.get("url") is None for an item without the
\* key, which no set of seen URLs holds, and item["url"] then raises KeyError
RECURSIVE UniqueByUrl(_, _, _)
UniqueByUrl(items, seen_urls, unique_news) ==
    IF items = <<>> THEN [raised |-> FALSE, unique_news |-> unique_news]
    ELSE IF Head(items).url = None
    THEN [raised |-> TRUE, unique_news |-> <<>>]
    ELSE IF Head(items).url[1] \in seen_urls
    THEN UniqueByUrl(Tail(items), seen_urls, unique_news)
    ELSE UniqueByUrl(Tail(items), seen_urls \cup {Head(items).url[1]},
                     Append(unique_news, Head(items)))

\* scrape_all_sources up to the gather: all_news starts empty and one crawl
\* per source is started
ScrapeAllSources(max_sources) ==
    /\ inflight = <<>>
    /\ LET sorted_sources == SortedSources(max_sources)
       IN  inflight' = (FreeSlot :>
                           [op |-> "scrape_all_sources", pc |-> "gather",
                            sorted_sources |-> sorted_sources,
                            results |-> [i \in DOMAIN sorted_sources |-> None]])
    /\ allNews' = <<>> /\ uniqueNews' = <<>>
    /\ lastOp' = "scrape_all_sources"
    /\ resp' = [status |-> "gathering"]
    /\ UNCHANGED <<now, apiVars, news, fdVars, marketVars, folioVars,
                   assetVars, schemeName>>

\* _scrape_single_source: the crawl of the i-th source finishes
ScrapeSingleSource(s, i, out) ==
    /\ s \in DOMAIN inflight /\ inflight[s].op = "scrape_all_sources"
    /\ i \in DOMAIN inflight[s].results /\ inflight[s].results[i] = None
    /\ out \in CrawlOutcomes(inflight[s].sorted_sources[i])
    /\ inflight' = [inflight EXCEPT ![s].results[i] = Some(out)]
    /\ lastOp' = "scrape_single_source"
    /\ resp' = [status |-> "gathering"]
    /\ UNCHANGED <<now, apiVars, newsVars, fdVars, marketVars, folioVars,
                   assetVars, schemeName>>

\* scrape_all_sources from the gather on: results come in the order of the
\* tasks, whatever the order the crawls finished in
GatherReturns(s) ==
    /\ s \in DOMAIN inflight /\ inflight[s].op = "scrape_all_sources"
    /\ \A i \in DOMAIN inflight[s].results : inflight[s].results[i] # None
    /\ LET all_news == ExtendAllNews(inflight[s].results, 1)
           unique   == UniqueByUrl(all_news, {}, <<>>)
       IN  /\ allNews' = all_news
           /\ uniqueNews' = unique.unique_news
           /\ resp' = IF unique.raised
                      THEN [status |-> "KeyError"]
                      ELSE [status |-> "returned"]
    /\ inflight' = Answered(s)
    /\ lastOp' = "gather"
    /\ UNCHANGED <<now, apiVars, news, fdVars, marketVars, folioVars,
                   assetVars, schemeName>>

InitScrape ==
    /\ now = 0 /\ lastOp = "init" /\ resp = [status |-> "init"]
    /\ ApiStart
    /\ BackgroundStart

NextScrape ==
    \/ \E max_sources \in ScrapeSizes : ScrapeAllSources(max_sources)
    \/ \E s \in 1..MaxInflight, i \in 1..Len(INDIA_FINANCIAL_NEWS_SOURCES) :
          \E source \in Range(INDIA_FINANCIAL_NEWS_SOURCES) :
             \E out \in CrawlOutcomes(source) : ScrapeSingleSource(s, i, out)
    \/ \E s \in 1..MaxInflight : GatherReturns(s)

SpecScrape == InitScrape /\ [][NextScrape]_vars

\* the crawls of the call in slot s that returned items, by position in the
\* priority order
Succeeded(s) ==
    {i \in DOMAIN inflight[s].results : ~ inflight[s].results[i][1].raised}

\* the first source in priority order among those that returned the URL
FirstWith(s, url) ==
    CHOOSE i \in Succeeded(s) :
        /\ \E k \in DOMAIN inflight[s].results[i][1].items :
               inflight[s].results[i][1].items[k].url = url
        /\ \A j \in Succeeded(s) :
               (\E k \in DOMAIN inflight[s].results[j][1].items :
                   inflight[s].results[j][1].items[k].url = url) => i <= j

\* C19: whichever crawls fail and in whatever order the crawls finish, the
\* scrape over the max_sources first sources in priority order returns; its
\* result holds exactly the items of the crawls that succeeded, one per URL,
\* and the instance of a URL is that of the first source in priority order
\* that returned it.
C19_ScrapeIsolatesFailures ==
    [][\A s \in DOMAIN inflight :
          GatherReturns(s) =>
             /\ resp'.status = "returned"
             /\ \A j \in DOMAIN uniqueNews' :
                   /\ \A m \in DOMAIN uniqueNews' :
                         uniqueNews'[m].url = uniqueNews'[j].url => m = j
                   /\ uniqueNews'[j].source =
                         inflight[s].sorted_sources[
                             FirstWith(s, uniqueNews'[j].url)].name
             /\ \A i \in Succeeded(s) :
                   \A k \in DOMAIN inflight[s].results[i][1].items :
                      \E j \in DOMAIN uniqueNews' :
                         uniqueNews'[j].url =
                            inflight[s].results[i][1].items[k].url]_vars


----------------------------------------------------------------------------
(* services/data_scrapers/mf_data_service.py: update_navs                  *)
(* Numbers are exact fractions in lowest terms; the rounding of the        *)
(* floating-point arithmetic is not modelled.                              *)

MaxNavClock == 1   \* days the NAV specification runs for

RECURSIVE Gcd(_, _)
Gcd(a, b) == IF b = 0 THEN a ELSE Gcd(b, a % b)

\* the fraction n / d in lowest terms, d positive
Reduced(n, d) ==
    LET g == Gcd(IF n < 0 THEN 0 - n ELSE n, d)
    IN  [num |-> n \div g, den |-> d \div g]

FracAdd(a, b) == Reduced(a.num * b.den + b.num * a.den, a.den * b.den)
FracSub(a, b) == Reduced(a.num * b.den - b.num * a.den, a.den * b.den)
FracMul(a, b) == Reduced(a.num * b.num, a.den * b.den)
\* a / b for b > 0
FracDiv(a, b) == Reduced(a.num * b.den, a.den * b.num)

RECURSIVE FracPow(_, _)
FracPow(a, k) == IF k = 0 THEN Reduced(1, 1) ELSE FracMul(a, FracPow(a, k - 1))

\* a ** (1 / k): the NAVs of the model are chosen to have rational roots
FracRoot(a, k) ==
    CHOOSE r \in {Reduced(p, q) : p \in 0..4, q \in 1..4} : FracPow(r, k) = a

Digits == <<"0", "1", "2", "3", "4", "5", "6", "7", "8", "9">>

IsDigit(c) == \E v \in DOMAIN Digits : Digits[v] = c
DigitValue(c) == (CHOOSE v \in DOMAIN Digits : Digits[v] = c) - 1

RECURSIVE Pow10(_)
Pow10(k) == IF k = 0 THEN 1 ELSE 10 * Pow10(k - 1)

\* the number a string of digits writes
RECURSIVE DigitsValue(_)
DigitsValue(text) ==
    IF text = "" THEN 0
    ELSE 10 * DigitsValue(SubSeq(text, 1, Len(text) - 1))
         + DigitValue(SubSeq(text, Len(text), Len(text)))

\* float(text) for unsigned decimal notation: digits with at most one point;
\* anything else met here ("N.A.", "") raises ValueError (None)
ParseFloat(text) ==
    LET points == {i \in 1..Len(text) : SubSeq(text, i, i) = "."}
        others == {i \in 1..Len(text) :
                      /\ SubSeq(text, i, i) # "."
                      /\ ~ IsDigit(SubSeq(text, i, i))}
    IN  IF others # {} \/ Cardinality(points) > 1
           \/ Len(text) = Cardinality(points)
        THEN None
        ELSE IF points = {}
        THEN Some(Reduced(DigitsValue(text), 1))
        ELSE LET p == CHOOSE i \in points : TRUE
                 whole == SubSeq(text, 1, p - 1)
                 frac  == SubSeq(text, p + 1, Len(text))
             IN  Some(Reduced(DigitsValue(whole) * Pow10(Len(frac))
                              + DigitsValue(frac),
                              Pow10(Len(frac))))

\* datetime.strptime(text, "%d-%m-%Y"): None stands for ValueError
ParseDate(text) ==
    IF /\ Len(text) = 10
       /\ SubSeq(text, 3, 3) = "-" /\ SubSeq(text, 6, 6) = "-"
       /\ \A i \in {1, 2, 4, 5, 7, 8, 9, 10} : IsDigit(SubSeq(text, i, i))
       /\ DigitsValue(SubSeq(text, 1, 2)) \in 1..31
       /\ DigitsValue(SubSeq(text, 4, 5)) \in 1..12
    THEN Some([day |-> DigitsValue(SubSeq(text, 1, 2)),
               month |-> DigitsValue(SubSeq(text, 4, 5)),
               year |-> DigitsValue(SubSeq(text, 7, 10))])
    ELSE None

\* datetime.utcnow() as a date: day 0 of the clock is 3 November 2026
UtcNow == [day |-> 3 + now, month |-> 11, year |-> 2026]

\* periods of _calculate_returns, in the order of the dict
periods ==
    <<[name |-> "1m", days |-> 30], [name |-> "3m", days |-> 90],
      [name |-> "6m", days |-> 180], [name |-> "1y", days |-> 365],
      [name |-> "3y", days |-> 1095], [name |-> "5y", days |-> 1825]>>

PeriodNames == {periods[k].name : k \in DOMAIN periods}
PeriodDays  == {periods[k].days : k \in DOMAIN periods}

\* a NAV history (newest first) is given by its length, its first entry and
\* the entries at the positions of the periods; the entries between them,
\* which the code does not read, are left out
\* nav_history[i]["nav"], i counted from 0
NavAt(data, i) == IF i = 0 THEN data.nav ELSE data.at[i]

Hundred == Reduced(100, 1)
One     == Reduced(1, 1)

\* a mutant: the simple return is used for every period
PeriodReturn_simple(name, days, current_nav, old_nav) ==
    FracMul(FracDiv(FracSub(current_nav, old_nav), old_nav), Hundred)

\* the return of one period: CAGR for 3y and 5y (years = days / 365), the
\* simple return otherwise
PeriodReturn(name, days, current_nav, old_nav) ==
    IF name \in {"3y", "5y"}
    THEN FracMul(FracSub(FracRoot(FracDiv(current_nav, old_nav), days \div 365),
                         One),
                 Hundred)
    ELSE FracMul(FracDiv(FracSub(current_nav, old_nav), old_nav), Hundred)

\* _calculate_returns: returns.get(name) for every period name
CalculateReturns(data) ==
    IF data.len < 2 \/ ParseFloat(NavAt(data, 0)) = None
    THEN [name \in PeriodNames |-> None]
    ELSE LET current_nav == ParseFloat(NavAt(data, 0))[1]
         IN  [name \in PeriodNames |->
                LET k == CHOOSE k \in DOMAIN periods : periods[k].name = name
                    d == periods[k].days
                IN  IF data.len > d
                    THEN LET old_nav == ParseFloat(NavAt(data, d))
                         IN  IF old_nav # None /\ old_nav[1].num > 0
                             THEN Some(PeriodReturn(name, d, current_nav,
                                                    old_nav[1]))
                             ELSE None
                    ELSE None]

\* the column of mutual_funds a period is stored in
ReturnColumn(name) == "return_" \o name

\* update(MutualFund).where(scheme_code == code).values(...)
UpdatedNav(row, nav_value, nav_date, returns) ==
    [c \in DOMAIN row |->
        IF c = "nav" THEN nav_value
        ELSE IF c = "nav_date" THEN nav_date
        ELSE IF c = "updated_at" THEN now
        ELSE IF \E name \in PeriodNames : c = ReturnColumn(name)
        THEN returns[CHOOSE name \in PeriodNames : c = ReturnColumn(name)]
        ELSE row[c]]

\* _update_single_nav on what fetch_scheme_details returned: the table after
\* it and the value returned
UpdateSingleNavOn(table, scheme_code, details) ==
    IF ~ details.ok \/ details.data = None
    THEN [table |-> table, success |-> FALSE]
    ELSE LET data      == details.data[1]
             nav_value == ParseFloat(NavAt(data, 0))
             parsed    == ParseDate(data.date)
             nav_date  == IF parsed = None THEN UtcNow ELSE parsed[1]
         IN  IF nav_value = None
             THEN [table |-> table, success |-> FALSE]
             ELSE [table |->
                      [i \in DOMAIN table |->
                          IF table[i].scheme_code = scheme_code
                          THEN UpdatedNav(table[i], nav_value[1], nav_date,
                                          CalculateReturns(data))
                          ELSE table[i]],
                   success |-> TRUE]

\* the schemes update_navs selects: active and not updated within the hour
\* (a day of the clock is longer), oldest update first
RECURSIVE SchemesToUpdate(_, _)
SchemesToUpdate(table, stamp) ==
    IF stamp >= now THEN <<>>
    ELSE [k \in DOMAIN SelectSeq(table, LAMBDA r :
                            r.is_active /\ r.updated_at = stamp) |->
             SelectSeq(table, LAMBDA r :
                 r.is_active /\ r.updated_at = stamp)[k].scheme_code]
         \o SchemesToUpdate(table, stamp + 1)

OldestStamp(table) ==
    IF table = <<>> THEN now
    ELSE CHOOSE t \in {table[i].updated_at : i \in DOMAIN table} :
            \A i \in DOMAIN table : t <= table[i].updated_at

DefaultMaxSchemes == 500

\* update_navs(max_schemes=...) up to the first fetch
UpdateNavsOf(max_schemes) ==
    /\ inflight = <<>>
    /\ LET scheme_codes == Limit(SchemesToUpdate(funds, OldestStamp(funds)),
                                 max_schemes)
       IN  IF scheme_codes = <<>>
           THEN /\ inflight' = inflight
                /\ resp' = [status |-> "done", updated |-> 0, failed |-> 0]
           ELSE /\ inflight' = (FreeSlot :>
                                   [op |-> "update_navs", pc |-> "fetch",
                                    scheme_codes |-> scheme_codes,
                                    selected |-> Len(scheme_codes),
                                    details |-> None,
                                    updated |-> 0, failed |-> 0])
                /\ resp' = [status |-> "running", updated |-> 0, failed |-> 0]
    /\ lastOp' = "update_navs"
    /\ UNCHANGED <<now, apiVars, newsVars, fdVars, marketVars, folioVars,
                   assetVars, schemeName>>

\* update_navs(), as refresh_mf_navs calls it
UpdateNavs == UpdateNavsOf(DefaultMaxSchemes)

\* fetch_scheme_details for the next scheme: the answer of the NAV API
FetchSchemeDetails(s, details) ==
    /\ s \in DOMAIN inflight /\ inflight[s].op = "update_navs"
    /\ inflight[s].pc = "fetch"
    /\ inflight' = [inflight EXCEPT ![s].details = Some(details),
                                    ![s].pc = "update"]
    /\ lastOp' = "fetch_scheme_details"
    /\ resp' = [status |-> "running", updated |-> inflight[s].updated,
                failed |-> inflight[s].failed]
    /\ UNCHANGED <<now, apiVars, newsVars, fdVars, marketVars, folioVars,
                   assetVars, schemeName>>

\* _update_single_nav after the fetch, and the end of update_navs (commit
\* and return) when this was the last scheme
UpdateSingleNav(s) ==
    /\ s \in DOMAIN inflight /\ inflight[s].op = "update_navs"
    /\ inflight[s].pc = "update"
    /\ LET req     == inflight[s]
           out     == UpdateSingleNavOn(funds, Head(req.scheme_codes),
                                        req.details[1])
           updated == req.updated + (IF out.success THEN 1 ELSE 0)
           failed  == req.failed + (IF out.success THEN 0 ELSE 1)
       IN  /\ funds' = out.table
           /\ IF Tail(req.scheme_codes) = <<>>
              THEN /\ inflight' = Answered(s)
                   /\ resp' = [status |-> "done", updated |-> updated,
                               failed |-> failed]
              ELSE /\ inflight' =
                         [inflight EXCEPT
                             ![s].scheme_codes = Tail(req.scheme_codes),
                             ![s].details = None, ![s].pc = "fetch",
                             ![s].updated = updated, ![s].failed = failed]
                   /\ resp' = [status |-> "running", updated |-> updated,
                               failed |-> failed]
    /\ lastOp' = "update_single_nav"
    /\ UNCHANGED <<now, apiVars, newsVars, fdVars, marketVars, folioVars,
                   etfs, schemeName>>

HistoryLengths ==
    {1, 2} \cup PeriodDays \cup {d + 1 : d \in PeriodDays}

\* NAVs at the positions of the periods: positive, zero and unreadable
HistoryPoints ==
    {(30 :> "880.0000" @@ 90 :> "640.0000" @@ 180 :> "500.0000"
      @@ 365 :> "400.0000" @@ 1095 :> "100.0000" @@ 1825 :> "25.0000"),
     (30 :> "0.0000" @@ 90 :> "N.A." @@ 180 :> "800.0000"
      @@ 365 :> "0.0000" @@ 1095 :> "6400.0000" @@ 1825 :> "N.A."),
     (30 :> "800.00" @@ 90 :> "880.0000" @@ 180 :> "N.A."
      @@ 365 :> "1600.0000" @@ 1095 :> "0.0000" @@ 1825 :> "25600.0000")}

NavHistories ==
    {[len |-> n, nav |-> "800.0000", date |-> "02-11-2026", at |-> at] :
        n \in HistoryLengths, at \in HistoryPoints}
    \cup {[len |-> 1826, nav |-> c, date |-> d,
           at |-> CHOOSE at \in HistoryPoints : at[30] = "880.0000"] :
             c \in {"0.0000", "N.A.", "800.0000"}, d \in {"", "31-10-2026"}}

\* what fetch_scheme_details returns: None, a body without data, a history
SchemeDetails ==
    {[ok |-> FALSE, data |-> None], [ok |-> TRUE, data |-> None]}
    \cup {[ok |-> TRUE, data |-> Some(h)] : h \in NavHistories}

\* a scheme priced the day before, with or without returns, and one that was
\* switched off
PricedFunds(returns) ==
    <<[id |-> 1, scheme_code |-> "119551", scheme_name |-> "HDFC Liquid Fund",
       nav |-> Reduced(790, 1),
       nav_date |-> [day |-> 1, month |-> 11, year |-> 2026],
       return_1m |-> returns, return_3m |-> returns, return_6m |-> returns,
       return_1y |-> returns, return_3y |-> returns, return_5y |-> returns,
       is_active |-> TRUE, updated_at |-> 0 - 1],
      [id |-> 2, scheme_code |-> "120503", scheme_name |-> "Axis Bluechip Fund",
       nav |-> Reduced(50, 1),
       nav_date |-> [day |-> 1, month |-> 11, year |-> 2026],
       return_1m |-> None, return_3m |-> None, return_6m |-> None,
       return_1y |-> None, return_3y |-> None, return_5y |-> None,
       is_active |-> FALSE, updated_at |-> 0 - 1]>>

InitNav ==
    /\ now = 0 /\ lastOp = "init"
    /\ resp = [status |-> "init", updated |-> 0, failed |-> 0]
    /\ ApiStart
    /\ news = <<>> /\ allNews = <<>> /\ uniqueNews = <<>>
    /\ srcs = <<>> /\ fdRates = <<>>
    /\ gold = <<>> /\ macro = <<>>
    /\ holdings = <<>> /\ txns = <<>>
    /\ funds \in {PricedFunds(None), PricedFunds(Some(Reduced(5, 1)))}
    /\ etfs = <<>>
    /\ schemeName = <<>>
    /\ inflight = <<>>

NextNav ==
    \/ UpdateNavs
    \/ \E s \in 1..MaxInflight, details \in SchemeDetails :
          FetchSchemeDetails(s, details)
    \/ \E s \in 1..MaxInflight : UpdateSingleNav(s)
    \/ Tick(MaxNavClock)

SpecNav == InitNav /\ [][NextNav]_vars


\* the row of a scheme
FundRow(table, scheme_code) ==
    table[CHOOSE i \in DOMAIN table : table[i].scheme_code = scheme_code]

\* the stored return r is the simple percentage from old_nav to current_nav
IsSimpleReturn(r, current_nav, old_nav) ==
    FracMul(r, old_nav) = FracMul(FracSub(current_nav, old_nav), Hundred)

\* the stored return r is the compound annual growth rate over the years:
\* (1 + r / 100) ** years = current_nav / old_nav
IsCagr(r, current_nav, old_nav, years) ==
    LET growth == FracAdd(FracDiv(r, Hundred), One)
    IN  /\ growth.num >= 0
        /\ FracMul(FracPow(growth, years), old_nav) = current_nav

\* C20: when update_navs stores the NAV of a scheme, each of the six returns
\* (30, 90, 180, 365, 1095, 1825 days) is set exactly when the newest-first
\* history has more than that many entries and the NAV at that position is a
\* positive number: to the simple percentage from that NAV to the current
\* one up to a year, to the CAGR for 3 and 5 years; every other return is
\* left empty.  A scheme whose fetch fails (or whose current NAV cannot be
\* read) keeps its NAV, NAV date and returns.
C20_TrailingReturns ==
    [][\A s \in 1..MaxInflight :
          UpdateSingleNav(s) =>
             LET code    == Head(inflight[s].scheme_codes)
                 details == inflight[s].details[1]
                 old     == FundRow(funds, code)
                 new     == FundRow(funds', code)
                 stored  == /\ details.ok /\ details.data # None
                            /\ ParseFloat(details.data[1].nav) # None
             IN  IF stored
                 THEN LET data == details.data[1]
                          current_nav == ParseFloat(data.nav)[1]
                      IN  /\ new.nav = current_nav
                          /\ \A k \in DOMAIN periods :
                                LET d == periods[k].days
                                    r == new[ReturnColumn(periods[k].name)]
                                    old_nav == ParseFloat(data.at[d])
                                    reaches == /\ data.len > d
                                               /\ old_nav # None
                                               /\ old_nav[1].num > 0
                                IN  /\ (r # None) <=> reaches
                                    /\ (reaches /\ d <= 365)
                                       => IsSimpleReturn(r[1], current_nav,
                                                         old_nav[1])
                                    /\ (reaches /\ d > 365)
                                       => IsCagr(r[1], current_nav, old_nav[1],
                                                 d \div 365)
                 ELSE new = old]_vars

\* an update of the second day stored a history too short for five years:
\* -9.09% over a month (NAV 880 to 800), 100% a year over three years (NAV
\* 100 to 800), no return over five years
C20_Witness ==
    /\ lastOp = "update_single_nav" /\ resp.status = "done" /\ resp.updated = 1
    /\ FundRow(funds, "119551").nav = Reduced(800, 1)
    /\ FundRow(funds, "119551").return_1m = Some(Reduced(0 - 100, 11))
    /\ FundRow(funds, "119551").return_3y = Some(Reduced(100, 1))
    /\ FundRow(funds, "119551").return_5y = None
    /\ now = 1


----------------------------------------------------------------------------
(* Freshness of the cached macro indicators: refresh runs over several     *)
(* days, with no admin update and no new observation in between.           *)

MaxFreshRows  == 8   \* rows of macro_indicators in the freshness runs
MaxFreshClock == 2   \* days the freshness specification runs for

InitFresh ==
    /\ now = 0 /\ lastOp = "init" /\ resp = [status |-> 0]
    /\ ApiStart
    /\ news = <<>> /\ allNews = <<>> /\ uniqueNews = <<>>
    /\ srcs = <<>> /\ fdRates = <<>>
    /\ gold = <<>>
    /\ \E repo_age \in {5, 6, 7}, cpi_age \in {28, 29, 30} :
          macro = SeededMacro(repo_age, cpi_age)
    /\ holdings = <<>> /\ txns = <<>>
    /\ funds = <<>> /\ etfs = <<>>
    /\ schemeName = <<>>
    /\ inflight = <<>>

NextFresh ==
    \/ \E live \in LiveForexRates :
          RefreshAllIndicators(live) /\ Len(macro') <= MaxFreshRows
    \/ Tick(MaxFreshClock)

SpecFresh == InitFresh /\ [][NextFresh]_vars

\* when the stored value of an indicator was obtained: no run of this
\* specification brings a new observation, so it is the time of the first row
ObtainedAt(name) ==
    LET named == {i \in DOMAIN macro : macro[i].indicator_name = name}
    IN  macro[CHOOSE i \in named : \A j \in named : i <= j].recorded_at

\* the names a run handed to _store_indicator
StoredNames(answer) == {answer.stored[k].name : k \in DOMAIN answer.stored}

\* C21: in a sequence of refresh runs without admin update or new
\* observation, a run treats the stored repo rate as cached only while the
\* value is less than 7 days old and the stored CPI only while it is less
\* than 30 days old, counted from when the value was obtained.
C21_FreshnessFromObservation ==
    [][lastOp' = "refresh_macro_indicators" =>
          /\ "status" \in StoredNames(resp')
                => now - ObtainedAt("repo_rate") < RbiCacheDays
          /\ "cpi_inflation" \in StoredNames(resp')
                => now - ObtainedAt("cpi_inflation") < CpiCacheDays]_vars

----------------------------------------------------------------------------
(* services/market_data/market_data_aggregator.py                          *)

MaxSnapshotRows  == 23   \* rows of macro_indicators in the snapshot runs
MaxAdminRows     == 3    \* rows up to which the admin adds indicators
MaxSnapshotClock == 1    \* days the snapshot specifications run for

MacroSnapshotLimit == 20
FdSummaryLimit     == 50
MetalSnapshotLimit == 10
CreditCardLimit    == 5
ShortTermDays      == 365
MediumTermDays     == 730

\* ORDER BY recorded_at DESC: rows are in insertion order and recorded_at
\* never decreases
NewestFirst(table) == [k \in 1..Len(table) |-> table[Len(table) + 1 - k]]

\* the column of the first row that passes the test, or None
FirstValue(rows, Test(_), Column(_)) ==
    LET hits == {k \in DOMAIN rows : Test(rows[k])}
    IN  IF hits = {} THEN None
        ELSE Some(Column(rows[CHOOSE k \in hits : \A j \in hits : k <= j]))

\* the rows _get_latest_macro_indicators reads
RecentIndicators(table) == Limit(NewestFirst(table), MacroSnapshotLimit)

\* indicators.get(name, {}).get("value")
SnapshotIndicator(table, name) ==
    FirstValue(RecentIndicators(table),
               LAMBDA r : r.indicator_name = name, LAMBDA r : r.value)

\* _get_latest_macro_indicators
GetLatestMacroIndicators(table) ==
    [repo_rate     |-> SnapshotIndicator(table, "repo_rate"),
     inflation_cpi |-> SnapshotIndicator(table, "cpi_inflation"),
     gdp_growth    |-> SnapshotIndicator(table, "gdp_growth"),
     usd_inr       |-> SnapshotIndicator(table, "usd_inr")]

\* _get_latest_metal_prices: the latest price of each metal
GetLatestMetalPrices(table) ==
    [gold_price_per_gram |->
        FirstValue(Limit(NewestFirst(table), MetalSnapshotLimit),
                   LAMBDA r : r.metal_type = "gold",
                   LAMBDA r : r.price_per_gram),
     silver_price_per_gram |->
        FirstValue(Limit(NewestFirst(table), MetalSnapshotLimit),
                   LAMBDA r : r.metal_type = "silver",
                   LAMBDA r : r.price_per_gram)]

\* short_term[0] and the like: rate, bank and tenure of the first row
BestOf(rows) ==
    IF rows = <<>> THEN [rate |-> None, bank |-> None, tenure |-> None]
    ELSE [rate |-> Some(rows[1].interest_rate_general),
          bank |-> Some(rows[1].bank_name),
          tenure |-> Some(rows[1].tenure_display)]

\* _get_fd_rate_summary; a tenure_max_days of 0 is falsy
GetFdRateSummary(table, tie) ==
    LET fd_rates    == Limit(OrderByRateDesc(Range(table), tie), FdSummaryLimit)
        short_term  == SelectSeq(fd_rates, LAMBDA f :
                          /\ f.tenure_max_days # 0
                          /\ f.tenure_max_days <= ShortTermDays)
        medium_term == SelectSeq(fd_rates, LAMBDA f :
                          /\ f.tenure_max_days # 0
                          /\ ShortTermDays < f.tenure_max_days
                          /\ f.tenure_max_days <= MediumTermDays)
        long_term   == SelectSeq(fd_rates, LAMBDA f :
                          /\ f.tenure_max_days # 0
                          /\ f.tenure_max_days > MediumTermDays)
        offers      == SelectSeq(fd_rates, LAMBDA f : f.has_credit_card_offer)
    IN  IF fd_rates = <<>>
        THEN [empty |-> TRUE, best_rate |-> None, average_rate |-> None]
        ELSE [empty |-> FALSE,
              best_overall_rate |-> Some(fd_rates[1].interest_rate_general),
              best_overall_bank |-> Some(fd_rates[1].bank_name),
              short_term_best   |-> BestOf(short_term),
              medium_term_best  |-> BestOf(medium_term),
              long_term_best    |-> BestOf(long_term),
              with_credit_card_offer |->
                 Limit([k \in DOMAIN offers |->
                          [bank |-> offers[k].bank_name,
                           rate |-> offers[k].interest_rate_general,
                           id   |-> offers[k].id]],
                       CreditCardLimit)]

\* get_current_market_snapshot, as GET /market/snapshot answers it; the news
\* sentiment and the equity indicators, read from tables that stay empty
\* here, are left out of the answer
GetCurrentMarketSnapshot(tie) ==
    /\ lastOp' = "market_snapshot"
    /\ resp' = [status |-> 200,
                macro_data |-> GetLatestMacroIndicators(macro),
                metal_prices |-> GetLatestMetalPrices(gold),
                fd_rates |-> GetFdRateSummary(fdRates, tie),
                snapshot_time |-> now]
    /\ UNCHANGED <<now, apiVars, newsVars, fdVars, marketVars, folioVars,
                   assetVars, schemeName, inflight>>

SnapshotIndicators == {"repo_rate", "gdp_growth"}
SnapshotValues     == {600}

InitMacroSnapshot ==
    /\ now = 0 /\ lastOp = "init" /\ resp = [status |-> 0]
    /\ ApiStart
    /\ news = <<>> /\ allNews = <<>> /\ uniqueNews = <<>>
    /\ srcs = <<>> /\ fdRates = StoredFdRates
    /\ gold = <<>>
    /\ \E repo_age \in {6, 8}, cpi_age \in {29, 31} :
          macro = SeededMacro(repo_age, cpi_age)
    /\ holdings = <<>> /\ txns = <<>>
    /\ funds = <<>> /\ etfs = <<>>
    /\ schemeName = <<>>
    /\ inflight = <<>>

NextMacroSnapshot ==
    \/ \E live \in LiveForexRates :
          RefreshAllIndicators(live) /\ Len(macro') <= MaxSnapshotRows
    \/ \E name \in SnapshotIndicators, value \in SnapshotValues :
          AdminUpdateIndicator(name, value) /\ Len(macro') <= MaxAdminRows
    \/ \E tie \in TieOrders : GetCurrentMarketSnapshot(tie)
    \/ Tick(MaxSnapshotClock)

SpecMacroSnapshot == InitMacroSnapshot /\ [][NextMacroSnapshot]_vars

\* the snapshot field of an indicator name
SnapshotField(name) ==
    CASE name = "repo_rate"     -> resp.macro_data.repo_rate
      [] name = "cpi_inflation" -> resp.macro_data.inflation_cpi
      [] name = "gdp_growth"    -> resp.macro_data.gdp_growth
      [] name = "usd_inr"       -> resp.macro_data.usd_inr

SnapshotNames == {"repo_rate", "cpi_inflation", "gdp_growth", "usd_inr"}

\* C22: in the snapshot, repo_rate, inflation_cpi, gdp_growth and usd_inr
\* each equal the value of the most recently recorded row of that name
\* whenever a row of that name is stored, however many rows of other
\* indicators were recorded after it, and are null only when no row of that
\* name exists.
C22_SnapshotLatestOfEachName ==
    lastOp = "market_snapshot" =>
       \A name \in SnapshotNames :
          SnapshotField(name) = GetLastIndicator(macro, name)


MaxFdSummaryRows == 52   \* rows of fixed_deposit_rates in the summary runs
MaxSummaryScrapes == 26  \* scrapes of one FD source in the summary runs

TierTwoYears ==
    [tenure |-> Some("2 years"), tenure_days_min |-> Some(366),
     tenure_days_max |-> Some(730), interest_rate_general |-> Some(750),
     special_features |-> None]

FdSummaryOutcomes ==
    FdScrapeOutcomes \cup {[ok |-> TRUE, rates |-> <<TierTwoYears>>]}

\* data_sources and fixed_deposit_rates after the two active sources were
\* scraped on each of the last n days and yielded the two-year tier
RECURSIVE FdHistory(_)
FdHistory(n) ==
    IF n = 0 THEN <<>>
    ELSE LET table == FdHistory(n - 1)
             first == [FdRow(table,
                             [rate |-> TierTwoYears,
                              bank_name |-> SeededFdSources[1].source_name,
                              bank_type |-> "small_finance"])
                         EXCEPT !.scraped_at = 0 - n]
             next  == [FdRow(Append(table, first),
                             [rate |-> TierTwoYears,
                              bank_name |-> SeededFdSources[2].source_name,
                              bank_type |-> "private"])
                         EXCEPT !.scraped_at = 0 - n]
         IN  table \o <<first, next>>

ScrapedFdSources(n) ==
    [i \in DOMAIN SeededFdSources |->
        IF SeededFdSources[i].is_active
        THEN [SeededFdSources[i] EXCEPT !.success_count = n,
                                        !.last_scraped = Some(0 - 1)]
        ELSE SeededFdSources[i]]

FdHistoryDays == {24, 25}

InitFdSnapshot ==
    /\ now = 0 /\ lastOp = "init" /\ resp = [status |-> 0]
    /\ ApiStart
    /\ news = <<>> /\ allNews = <<>> /\ uniqueNews = <<>>
    /\ \E n \in FdHistoryDays :
          srcs = ScrapedFdSources(n) /\ fdRates = FdHistory(n)
    /\ gold = <<>> /\ macro = <<>>
    /\ holdings = <<>> /\ txns = <<>>
    /\ funds = <<>> /\ etfs = <<>>
    /\ schemeName = <<>>
    /\ inflight = <<>>

NextFdSnapshot ==
    \/ \E outs \in [DOMAIN srcs -> FdSummaryOutcomes] :
          /\ \A i \in DOMAIN srcs \ ActiveFdSources : ~ outs[i].ok
          /\ FewerScrapes(MaxSummaryScrapes)
          /\ ScrapeAllFdRates(outs)
          /\ Len(fdRates') <= MaxFdSummaryRows
    \/ \E tie \in TieOrders : GetCurrentMarketSnapshot(tie)
    \/ Tick(MaxSnapshotClock)

SpecFdSnapshot == InitFdSnapshot /\ [][NextFdSnapshot]_vars

\* the stored rows of a tenure bucket
ShortTermRows  == {r \in Range(fdRates) : r.tenure_max_days <= ShortTermDays}
MediumTermRows == {r \in Range(fdRates) : /\ r.tenure_max_days > ShortTermDays
                                          /\ r.tenure_max_days <= MediumTermDays}
LongTermRows   == {r \in Range(fdRates) : r.tenure_max_days > MediumTermDays}

\* the maximum general rate of a set of rows, None when there is none
MaxRate(rows) ==
    IF rows = {} THEN None
    ELSE Some(CHOOSE v \in {r.interest_rate_general : r \in rows} :
                 \A r \in rows : r.interest_rate_general <= v)

\* C23: in the FD summary of the snapshot the overall best rate is the
\* maximum general rate over all stored FD rows; the best rate of each tenure
\* bucket (short: tenure_max_days at most 365, medium: 366 to 730, long:
\* above 730) is the maximum general rate over the stored rows of the bucket
\* and none only when the bucket has no stored row; the credit-card list
\* holds at most 5 offers, all of rows with the credit-card flag set.
C23_FdSummaryBestRates ==
    lastOp = "market_snapshot" /\ fdRates # <<>> =>
       /\ resp.fd_rates.best_overall_rate = MaxRate(Range(fdRates))
       /\ resp.fd_rates.short_term_best.rate = MaxRate(ShortTermRows)
       /\ resp.fd_rates.medium_term_best.rate = MaxRate(MediumTermRows)
       /\ resp.fd_rates.long_term_best.rate = MaxRate(LongTermRows)
       /\ Len(resp.fd_rates.with_credit_card_offer) <= CreditCardLimit
       /\ \A k \in DOMAIN resp.fd_rates.with_credit_card_offer :
             \E r \in Range(fdRates) :
                /\ r.id = resp.fd_rates.with_credit_card_offer[k].id
                /\ r.has_credit_card_offer

----------------------------------------------------------------------------
(* tasks/data_refresh_tasks.py: update_portfolio_values                    *)
(* Amounts are exact fractions; an interest rate is in whole percent.      *)

MaxRevalueHoldings == 2   \* rows of portfolio_holdings in the revaluation runs
MaxRevalueClock    == 2   \* days the revaluation specification runs for

DaysPerYear == 365

\* select(ETF).where(ETF.symbol == ...): scalar_one_or_none
EtfBySymbol(symbol) ==
    IF \E i \in DOMAIN etfs : etfs[i].symbol = symbol
    THEN Some(CHOOSE x \in Range(etfs) : x.symbol = symbol)
    ELSE None

\* holding.units is set and not zero
HasUnits(holding) == holding.units # None /\ holding.units[1] # 0

\* the new_value the loop computes for a holding, None when it computes none
NewValue(holding) ==
    CASE holding.asset_type = "mutual_fund" ->
            IF FundByCode(holding.asset_identifier) # None /\ HasUnits(holding)
            THEN Some(Reduced(holding.units[1]
                                * FundByCode(holding.asset_identifier)[1].nav, 1))
            ELSE None
      [] holding.asset_type = "etf" ->
            IF EtfBySymbol(holding.asset_identifier) # None /\ HasUnits(holding)
            THEN Some(Reduced(holding.units[1]
                                * EtfBySymbol(holding.asset_identifier)[1].market_price,
                              1))
            ELSE None
      [] holding.asset_type \in {"gold", "silver"} ->
            IF GetLastKnownPrice(gold, holding.asset_type) # None
                  /\ HasUnits(holding)
            THEN Some(Reduced(holding.units[1]
                                * GetLastKnownPrice(gold, holding.asset_type)[1].per_gram,
                              1))
            ELSE None
      [] holding.asset_type = "fd" ->
            IF holding.interest_rate # None /\ holding.interest_rate[1] # 0
            THEN LET days_held == now - holding.purchase_date
                 IN  Some(Reduced(holding.invested_amount * 100 * DaysPerYear
                                    + holding.invested_amount
                                        * holding.interest_rate[1] * days_held,
                                  100 * DaysPerYear))
            ELSE None
      [] OTHER -> None

\* a mutant: the computed value is written even when it is zero
Revalued_zero_too(holding, new_value) ==
    IF new_value # None
    THEN [holding EXCEPT !.current_value = new_value[1], !.last_valued_at = now]
    ELSE holding

\* if new_value: holding.current_value = new_value; last_valued_at = utcnow()
Revalued(holding, new_value) ==
    IF new_value # None /\ new_value[1].num # 0
    THEN [holding EXCEPT !.current_value = new_value[1], !.last_valued_at = now]
    ELSE holding

\* update_portfolio_values
UpdatePortfolioValues ==
    /\ lastOp' = "update_portfolio_values"
    /\ holdings' = [i \in DOMAIN holdings |->
                       Revalued(holdings[i], NewValue(holdings[i]))]
    /\ resp' = [status |-> "ok",
                updated |-> Cardinality({i \in DOMAIN holdings :
                               /\ NewValue(holdings[i]) # None
                               /\ NewValue(holdings[i])[1].num # 0})]
    /\ UNCHANGED <<now, apiVars, newsVars, fdVars, marketVars, txns,
                   assetVars, schemeName, inflight>>

\* holdings as add_holding stores them: the current value is the amount
\* invested, the valuation time the time of the insert
RevalueHolding(asset_type, asset_identifier, invested_amount, units, interest_rate) ==
    [user_id |-> 1, asset_type |-> asset_type,
     asset_identifier |-> asset_identifier,
     invested_amount |-> invested_amount,
     current_value |-> Reduced(invested_amount, 1),
     units |-> units,
     average_cost |-> IF units # None /\ units[1] # 0
                      THEN Some(Ratio(invested_amount, units[1])) ELSE None,
     interest_rate |-> interest_rate,
     purchase_date |-> 0 - 10, last_valued_at |-> 0 - 10]

RevalueHoldings ==
    {RevalueHolding("mutual_fund", "119551", 100, Some(2), None),
     RevalueHolding("mutual_fund", "119551", 100, None, None),
     RevalueHolding("mutual_fund", "000000", 200, Some(2), None),
     RevalueHolding("etf", "GOLDBEES", 120, Some(3), None),
     RevalueHolding("gold", "GOLD", 7000, Some(1), None),
     RevalueHolding("silver", "SILVER", 0, Some(0), None),
     RevalueHolding("silver", "SILVER", 900, Some(10), None),
     RevalueHolding("fd", "HDFC Bank", 7300, None, Some(5)),
     RevalueHolding("fd", "HDFC Bank", 7300, None, None),
     RevalueHolding("stock", "INFY", 500, Some(1), None)}

\* the tables of a portfolio of n holdings
HoldingTables(n) ==
    UNION {{[i \in 1..k |-> [id |-> i] @@ t[i]] : t \in [1..k -> RevalueHoldings]} :
              k \in 0..n}

MarketFunds(nav) ==
    <<[id |-> 1, scheme_code |-> "119551", scheme_name |-> "HDFC Liquid Fund",
       nav |-> nav, is_active |-> TRUE, updated_at |-> 0 - 1]>>

MarketEtfs(market_price) ==
    <<[id |-> 1, symbol |-> "GOLDBEES", name |-> "Nippon India ETF Gold BeES",
       underlying |-> "gold", nav |-> 0, market_price |-> market_price,
       premium_discount |-> 0, exchange |-> "NSE", updated_at |-> 0 - 1]>>

\* gold_silver_prices after one or two stores of the gold price alone
MarketMetals ==
    {<<>>,
     StorePrice(<<>>, "gold",
                [per_gram |-> 7100, per_10g |-> 71000, per_oz |-> 220835,
                 source |-> "goldapi.io"]),
     StorePrice(StorePrice(<<>>, "gold",
                           [per_gram |-> 7100, per_10g |-> 71000,
                            per_oz |-> 220835, source |-> "goldapi.io"]),
                "silver",
                [per_gram |-> 0, per_10g |-> 0, per_oz |-> 0,
                 source |-> "goldapi.io"])}

InitRevalue ==
    /\ now = 0 /\ lastOp = "init" /\ resp = [status |-> 0]
    /\ users = SeededUsers /\ issued = {} /\ memCalls = 0 /\ plans = <<>>
    /\ news = <<>> /\ allNews = <<>> /\ uniqueNews = <<>>
    /\ srcs = <<>> /\ fdRates = <<>>
    /\ gold \in MarketMetals /\ macro = <<>>
    /\ holdings \in HoldingTables(MaxRevalueHoldings) /\ txns = <<>>
    /\ \E nav \in StoredNavs : funds = MarketFunds(nav)
    /\ \E market_price \in {0, 40} : etfs = MarketEtfs(market_price)
    /\ schemeName = <<>>
    /\ inflight = <<>>

NextRevalue ==
    \/ UpdatePortfolioValues
    \/ Tick(MaxRevalueClock)

SpecRevalue == InitRevalue /\ [][NextRevalue]_vars

\* the value the spec gives a holding: units times the latest NAV, market
\* price or price per gram, or principal plus simple accrual; zero when no
\* value can be computed
ExpectedValue(h) ==
    LET fund   == {f \in Range(funds) : f.scheme_code = h.asset_identifier}
        etf    == {x \in Range(etfs) : x.symbol = h.asset_identifier}
        metal  == {i \in DOMAIN gold : gold[i].metal_type = h.asset_type}
        latest == CHOOSE i \in metal : \A j \in metal : j <= i
        units  == IF h.units = None THEN 0 ELSE h.units[1]
        rate   == IF h.interest_rate = None THEN 0 ELSE h.interest_rate[1]
    IN  CASE h.asset_type = "mutual_fund" /\ fund # {} ->
                Reduced(units * (CHOOSE f \in fund : TRUE).nav, 1)
          [] h.asset_type = "etf" /\ etf # {} ->
                Reduced(units * (CHOOSE x \in etf : TRUE).market_price, 1)
          [] h.asset_type \in {"gold", "silver"} /\ metal # {} ->
                Reduced(units * gold[latest].price_per_gram, 1)
          [] h.asset_type = "fd" /\ rate # 0 ->
                FracAdd(Reduced(h.invested_amount, 1),
                        Reduced(h.invested_amount * rate * (now - h.purchase_date),
                                100 * DaysPerYear))
          [] OTHER -> Reduced(0, 1)

\* C24: portfolio revaluation changes only current_value and last_valued_at,
\* and only of holdings for which a non-zero new value was computed (units
\* times the latest NAV, market price or price per gram; for a fixed deposit
\* principal plus simple accrual over the days held); every other holding is
\* left completely unchanged, no current_value is set to zero, and no
\* holding is added or deleted.
C24_RevaluationFrame ==
    [][lastOp' = "update_portfolio_values" =>
          /\ DOMAIN holdings' = DOMAIN holdings
          /\ \A i \in DOMAIN holdings :
                IF ExpectedValue(holdings[i]).num # 0
                THEN holdings'[i] =
                        [holdings[i] EXCEPT
                            !.current_value = ExpectedValue(holdings[i]),
                            !.last_valued_at = now]
                ELSE holdings'[i] = holdings[i]
          /\ \A i \in DOMAIN holdings' :
                holdings'[i].current_value.num = 0
                   => holdings[i].current_value.num = 0
          /\ UNCHANGED <<txns, users, funds, etfs, gold>>]_vars

\* a revaluation on day 2 left the fund holding whose NAV is 0 as it was and
\* gave the fixed deposit of 7300 at 5 percent its 12 days of accrual
C24_Witness ==
    /\ lastOp = "update_portfolio_values" /\ now = 2
    /\ Len(holdings) = 2
    /\ holdings[1].asset_type = "mutual_fund" /\ holdings[1].units = Some(2)
    /\ holdings[1].asset_identifier = "119551" /\ funds[1].nav = 0
    /\ holdings[1].current_value = Reduced(100, 1)
    /\ holdings[1].last_valued_at = 0 - 10
    /\ holdings[2].asset_type = "fd"
    /\ holdings[2].current_value = Reduced(7312, 1)
    /\ holdings[2].last_valued_at = 2

----------------------------------------------------------------------------
(* services/data_scrapers/fd_scraper.py: scrape_fd_rates, crawl by crawl   *)

MaxFdAttempts == 2   \* scrape attempts on one FD source

\* data_sources with the URL and the last error of every source
FdSourcesWithUrl ==
    [i \in DOMAIN SeededFdSources |->
        SeededFdSources[i]
        @@ [source_url |-> CASE i = 1 -> "https://theunitybank.com/fd"
                             [] i = 2 -> "https://hdfcbank.com/fd"
                             [] OTHER -> "https://axisbank.com/fd",
            last_error |-> None]]

\* what crawler.arun does: it raises, or answers without success, or with
\* extracted_content that is empty, is not JSON, is a JSON object (with or
\* without the key fd_rates) or is a JSON array
CrawlResults ==
    {[kind |-> "raised", fd_rates |-> None],
     [kind |-> "unsuccessful", fd_rates |-> None],
     [kind |-> "empty", fd_rates |-> None],
     [kind |-> "not json", fd_rates |-> None],
     [kind |-> "object", fd_rates |-> None],
     [kind |-> "object", fd_rates |-> Some(<<TierOneYear>>)],
     [kind |-> "array", fd_rates |-> None]}

\* the except branch and the else branch of scrape_fd_rates
CountFailure(source, message) ==
    [source EXCEPT !.failure_count = @ + 1, !.last_error = Some(message)]

\* the success branch, up to its commit
CountSuccess(source) ==
    [source EXCEPT !.success_count = @ + 1, !.last_scraped = Some(now)]

\* scrape_fd_rates: the source after the attempt and the rates returned.
\* extracted.get("fd_rates", []) comes after the commit of the success
\* branch; on a JSON array it raises AttributeError inside the try.
ScrapeFdRates(source, crawl) ==
    CASE crawl.kind = "raised" ->
            [source |-> CountFailure(source, "TimeoutError"), rates |-> <<>>]
      [] crawl.kind \in {"unsuccessful", "empty"} ->
            [source |-> CountFailure(source, "error_message"), rates |-> <<>>]
      [] crawl.kind = "not json" ->
            [source |-> CountFailure(source, "JSONDecodeError"), rates |-> <<>>]
      [] crawl.kind = "object" ->
            [source |-> CountSuccess(source), rates |-> GetOr(crawl.fd_rates, <<>>)]
      [] crawl.kind = "array" ->
            [source |-> CountFailure(CountSuccess(source), "AttributeError"),
             rates |-> <<>>]

\* the loop of scrape_all_fd_rates over the active sources, in table order
RECURSIVE CrawledRates(_, _)
CrawledRates(crawls, i) ==
    IF i > Len(srcs) THEN <<>>
    ELSE (IF i \in ActiveFdSources
          THEN LET rates == ScrapeFdRates(srcs[i], crawls[i]).rates
               IN  [k \in DOMAIN rates |->
                      [rate |-> rates[k],
                       bank_name |-> srcs[i].source_name,
                       bank_type |-> srcs[i].scraper_config.bank_type]]
          ELSE <<>>)
         \o CrawledRates(crawls, i + 1)

\* scrape_all_fd_rates, crawl by crawl
CrawlAllFdRates(crawls) ==
    LET all_rates == CrawledRates(crawls, 1)
    IN  /\ lastOp' = "scrape_all_fd_rates"
        /\ srcs' = [i \in DOMAIN srcs |->
                       IF i \in ActiveFdSources
                       THEN ScrapeFdRates(srcs[i], crawls[i]).source
                       ELSE srcs[i]]
        /\ fdRates' = StoreFdRates(fdRates, all_rates)
        /\ resp' = [status |-> 200, crawls |-> crawls,
                    total_sources |-> Cardinality(ActiveFdSources),
                    total_rates_found |-> Len(all_rates)]
        /\ UNCHANGED <<now, apiVars, newsVars, marketVars, folioVars,
                       assetVars, schemeName, inflight>>

InitFdAttempts ==
    /\ now = 0 /\ lastOp = "init" /\ resp = [status |-> 0]
    /\ ApiStart
    /\ news = <<>> /\ allNews = <<>> /\ uniqueNews = <<>>
    /\ srcs = FdSourcesWithUrl /\ fdRates = <<>>
    /\ gold = <<>> /\ macro = <<>>
    /\ holdings = <<>> /\ txns = <<>>
    /\ funds = <<>> /\ etfs = <<>>
    /\ schemeName = <<>>
    /\ inflight = <<>>

NextFdAttempts ==
    \/ \E crawls \in [DOMAIN srcs -> CrawlResults] :
          /\ \A i \in DOMAIN srcs \ ActiveFdSources : crawls[i].kind = "raised"
          /\ \A i \in ActiveFdSources :
                srcs[i].success_count + srcs[i].failure_count < MaxFdAttempts
          /\ CrawlAllFdRates(crawls)
    \/ Tick(MaxSnapshotClock)

SpecFdAttempts == InitFdAttempts /\ [][NextFdAttempts]_vars

\* C25: every scrape attempt on an FD source increments exactly one of
\* success_count and failure_count by one (a success also sets last_scraped,
\* a failure also stores the error text); scraping never changes is_active;
\* and a failing source does not fail the batch: the other active sources
\* are scraped and their rates stored in the same run.
C25_OneCounterPerAttempt ==
    [][lastOp' = "scrape_all_fd_rates" =>
          /\ DOMAIN srcs' = DOMAIN srcs
          /\ \A i \in DOMAIN srcs :
                /\ srcs'[i].is_active = srcs[i].is_active
                /\ i \notin ActiveFdSources => srcs'[i] = srcs[i]
                /\ i \in ActiveFdSources =>
                      \/ /\ srcs'[i].success_count = srcs[i].success_count + 1
                         /\ srcs'[i].failure_count = srcs[i].failure_count
                         /\ srcs'[i].last_scraped = Some(now)
                      \/ /\ srcs'[i].failure_count = srcs[i].failure_count + 1
                         /\ srcs'[i].success_count = srcs[i].success_count
                         /\ srcs'[i].last_error # None
          /\ \A i \in ActiveFdSources :
                resp'.crawls[i].fd_rates # None =>
                   \E k \in DOMAIN fdRates' \ DOMAIN fdRates :
                      fdRates'[k].bank_name = srcs[i].source_name]_vars

----------------------------------------------------------------------------
(* fd_scraper.py: discover_fd_sources; data_refresh_tasks.py:              *)
(* discover_new_fd_sources.  data_sources.source_url is unique.            *)

MaxCandidates     == 2   \* candidates in one answer of the gateway
MaxDiscoveryClock == 1   \* days the discovery specification runs for

\* data_sources before the first discovery: the FD sources, one of them
\* inactive, and a news source
KnownSources ==
    Append(FdSourcesWithUrl,
           [id |-> 4, source_type |-> "news", source_name |-> "Moneycontrol",
            source_url |-> "https://moneycontrol.com/fd",
            scraper_config |-> [bank_type |-> "unknown"], is_active |-> TRUE,
            last_scraped |-> None, success_count |-> 0, failure_count |-> 0,
            last_error |-> None])

\* sources the gateway may suggest: an active FD source, the inactive one,
\* the news source, and two that are not stored
Candidates ==
    {[name |-> "HDFC Bank", url |-> "https://hdfcbank.com/fd",
      type |-> "private_bank"],
     [name |-> "Axis Bank", url |-> "https://axisbank.com/fd",
      type |-> "private_bank"],
     [name |-> "Moneycontrol FD", url |-> "https://moneycontrol.com/fd",
      type |-> "aggregator"],
     [name |-> "Utkarsh SFB", url |-> "https://utkarsh.bank/fd",
      type |-> "small_finance_bank"],
     [name |-> "Suryoday SFB", url |-> "https://suryodaybank.com/fd",
      type |-> "small_finance_bank"]}

\* what json.loads makes of the answer of the gateway: it raises
\* JSONDecodeError, or yields an object, or yields an array of candidates
DiscoveryResponses ==
    {[kind |-> "not json", sources |-> <<>>],
     [kind |-> "object", sources |-> <<>>]}
    \cup {[kind |-> "array", sources |-> list] :
             list \in UNION {[1..n -> Candidates] : n \in 0..MaxCandidates}}

\* discover_fd_sources: the candidates whose URL no FD source has; raised
\* when iterating an object, whose items are its keys
DiscoverFdSources(table, response) ==
    LET existing_urls == {table[i].source_url :
                             i \in {j \in DOMAIN table :
                                       table[j].source_type = "fd_rates"}}
    IN  CASE response.kind = "not json" -> [raised |-> FALSE, new_sources |-> <<>>]
          [] response.kind = "object" -> [raised |-> TRUE, new_sources |-> <<>>]
          [] response.kind = "array" ->
                [raised |-> FALSE,
                 new_sources |-> SelectSeq(response.sources,
                                    LAMBDA c : c.url \notin existing_urls)]

\* DataSource(source_type="fd_rates", ...)
NewDataSource(table, source) ==
    [id |-> Len(table) + 1, source_type |-> "fd_rates",
     source_name |-> source.name, source_url |-> source.url,
     scraper_config |-> [bank_type |-> source.type], is_active |-> TRUE,
     last_scraped |-> None, success_count |-> 0, failure_count |-> 0,
     last_error |-> None]

RECURSIVE AddSources(_, _)
AddSources(table, new_sources) ==
    IF new_sources = <<>> THEN table
    ELSE AddSources(Append(table, NewDataSource(table, Head(new_sources))),
                    Tail(new_sources))

\* the unique index on data_sources.source_url
UrlsUnique(table) ==
    \A i, j \in DOMAIN table :
       table[i].source_url = table[j].source_url => i = j

\* discover_new_fd_sources: the commit fails on a URL that is stored twice,
\* and an exception leaves the task without a result
DiscoverNewFdSources(response) ==
    LET found == DiscoverFdSources(srcs, response)
        added == AddSources(srcs, found.new_sources)
    IN  /\ lastOp' = "discover_new_fd_sources"
        /\ IF found.raised
           THEN /\ srcs' = srcs
                /\ resp' = [status |-> "AttributeError", response |-> response]
           ELSE IF ~ UrlsUnique(added)
           THEN /\ srcs' = srcs
                /\ resp' = [status |-> "IntegrityError", response |-> response]
           ELSE /\ srcs' = added
                /\ resp' = [status |-> "ok", response |-> response,
                            discovered |-> Len(found.new_sources),
                            added |-> Len(found.new_sources)]
        /\ UNCHANGED <<now, apiVars, newsVars, fdRates, marketVars, folioVars,
                       assetVars, schemeName, inflight>>

InitDiscovery ==
    /\ now = 0 /\ lastOp = "init" /\ resp = [status |-> 0]
    /\ ApiStart
    /\ news = <<>> /\ allNews = <<>> /\ uniqueNews = <<>>
    /\ srcs = KnownSources /\ fdRates = <<>>
    /\ gold = <<>> /\ macro = <<>>
    /\ holdings = <<>> /\ txns = <<>>
    /\ funds = <<>> /\ etfs = <<>>
    /\ schemeName = <<>>
    /\ inflight = <<>>

NextDiscovery ==
    \/ \E response \in DiscoveryResponses : DiscoverNewFdSources(response)
    \/ Tick(MaxDiscoveryClock)

SpecDiscovery == InitDiscovery /\ [][NextDiscovery]_vars

\* the URLs of a table
UrlsOf(table) == {table[i].source_url : i \in DOMAIN table}

\* C26: for every answer of the gateway (also one that repeats a URL, or
\* names a URL stored under an inactive source or under a source of another
\* type) a discovery run completes and reports discovered = added, it adds
\* one row for exactly the candidates whose URL was not known and none for
\* the others, and no two DataSource rows share a URL.
C26_DiscoveryAddsUnknown ==
    [][lastOp' = "discover_new_fd_sources" /\ resp'.response.kind = "array" =>
          /\ resp'.status = "ok"
          /\ resp'.discovered = resp'.added
          /\ Len(srcs') = Len(srcs) + resp'.added
          /\ SubSeq(srcs', 1, Len(srcs)) = srcs
          /\ UrlsOf(srcs') =
                UrlsOf(srcs) \cup {c.url : c \in Range(resp'.response.sources)}
          /\ UrlsUnique(srcs')]_vars

----------------------------------------------------------------------------
(* mf_data_service.py: sync_all_schemes and its counts                     *)

MaxSyncClock == 1   \* days the sync specification runs for

\* the (added, updated) counts of _process_scheme_batch
RECURSIVE BatchCounts(_, _)
BatchCounts(table, schemes) ==
    IF schemes = <<>> THEN [added |-> 0, updated |-> 0]
    ELSE LET scheme_code == SchemeCodeStr(Head(schemes))
             scheme_name == Head(schemes).schemeName
             after == ProcessSchemeBatch(table, <<Head(schemes)>>)
             rest  == BatchCounts(after, Tail(schemes))
         IN  IF scheme_code = "" \/ scheme_name = "" THEN rest
             ELSE IF \E i \in DOMAIN table : table[i].scheme_code = scheme_code
             THEN [rest EXCEPT !.updated = @ + 1]
             ELSE [rest EXCEPT !.added = @ + 1]

\* sync_all_schemes, as the sync task runs it
SyncSchemes(schemes) ==
    LET counts == BatchCounts(funds, schemes)
    IN  /\ lastOp' = "sync_all_schemes"
        /\ funds' = SyncAllSchemes(funds, schemes)
        /\ resp' = [status |-> "success", listing |-> schemes,
                    total |-> Len(schemes),
                    added |-> counts.added, updated |-> counts.updated]
        /\ UNCHANGED <<now, apiVars, newsVars, fdVars, marketVars, folioVars,
                       etfs, schemeName, inflight>>

\* mutual_funds after a sync and a NAV update of the first scheme
NavSyncedFunds ==
    [i \in DOMAIN SyncedFunds |->
        IF i = 1 THEN [SyncedFunds[i] EXCEPT !.nav = 790, !.nav_date = 0 - 1,
                                             !.is_active = FALSE]
        ELSE SyncedFunds[i]]

InitSync ==
    /\ now = 0 /\ lastOp = "init" /\ resp = [status |-> 0]
    /\ ApiStart
    /\ news = <<>> /\ allNews = <<>> /\ uniqueNews = <<>>
    /\ srcs = <<>> /\ fdRates = <<>>
    /\ gold = <<>> /\ macro = <<>>
    /\ holdings = <<>> /\ txns = <<>>
    /\ funds \in {<<>>, NavSyncedFunds} /\ etfs = <<>>
    /\ schemeName = <<>>
    /\ inflight = <<>>

NextSync ==
    \/ \E schemes \in SchemeListings : SyncSchemes(schemes)
    \/ Tick(MaxSyncClock)

SpecSync == InitSync /\ [][NextSync]_vars

\* the entries of a listing that have a scheme code and a name
NotSkipped(schemes) ==
    SelectSeq(schemes, LAMBDA e : e.schemeCode # None /\ e.schemeCode[1] # ""
                                  /\ e.schemeName # "")

CodesOf(table) == {table[i].scheme_code : i \in DOMAIN table}

\* C27: scheme sync is an upsert by scheme code: there is at most one row per
\* scheme code; a run inserts a row (NAV 0, active) for exactly the listed
\* entries whose code has no row; for entries whose code has a row it leaves
\* NAV and NAV date unchanged; entries lacking a scheme code or a name are
\* skipped; the reported total is the number of listed entries, and
\* added + updated is the number of entries not skipped.
C27_SyncIsUpsertByCode ==
    [][lastOp' = "sync_all_schemes" =>
          LET listed == NotSkipped(resp'.listing)
          IN  /\ \A i, j \in DOMAIN funds' :
                    funds'[i].scheme_code = funds'[j].scheme_code => i = j
              /\ CodesOf(funds') =
                    CodesOf(funds) \cup {listed[k].schemeCode[1] : k \in DOMAIN listed}
              /\ \A i \in DOMAIN funds :
                    /\ funds'[i].scheme_code = funds[i].scheme_code
                    /\ funds'[i].nav = funds[i].nav
                    /\ funds'[i].nav_date = funds[i].nav_date
              /\ \A i \in DOMAIN funds' \ DOMAIN funds :
                    funds'[i].nav = 0 /\ funds'[i].is_active
              /\ resp'.total = Len(resp'.listing)
              /\ resp'.added + resp'.updated = Len(listed)]_vars

----------------------------------------------------------------------------
(* mf_data_service.py: update_navs run after run                           *)

MaxStarveClock == 2   \* days the repeated NAV runs last

\* max_schemes of the runs
NavRunSizes == {1, 2}

\* the NAV API has no data for this scheme, on every run
FailingCode == "100001"
GoodCode    == "119551"

\* mutual_funds: the scheme without data is the one updated longest ago
StaleFunds ==
    <<[id |-> 1, scheme_code |-> FailingCode, scheme_name |-> "Closed Fund",
       nav |-> Reduced(0, 1),
       nav_date |-> [day |-> 1, month |-> 11, year |-> 2026],
       return_1m |-> None, return_3m |-> None, return_6m |-> None,
       return_1y |-> None, return_3y |-> None, return_5y |-> None,
       is_active |-> TRUE, updated_at |-> 0 - 2],
      [id |-> 2, scheme_code |-> GoodCode, scheme_name |-> "HDFC Liquid Fund",
       nav |-> Reduced(790, 1),
       nav_date |-> [day |-> 1, month |-> 11, year |-> 2026],
       return_1m |-> None, return_3m |-> None, return_6m |-> None,
       return_1y |-> None, return_3y |-> None, return_5y |-> None,
       is_active |-> TRUE, updated_at |-> 0 - 1]>>

\* the answers of the NAV API for a scheme: none that _update_single_nav can
\* use for the failing scheme, a readable history for the others
DetailsFor(scheme_code) ==
    IF scheme_code = FailingCode
    THEN {d \in SchemeDetails : d.data = None}
    ELSE {d \in SchemeDetails :
             /\ d.ok /\ d.data # None
             /\ d.data[1].len \in {1, 2} /\ d.data[1].nav = "800.0000"}

InitNavRuns ==
    /\ now = 0 /\ lastOp = "init"
    /\ resp = [status |-> "init", updated |-> 0, failed |-> 0]
    /\ ApiStart
    /\ news = <<>> /\ allNews = <<>> /\ uniqueNews = <<>>
    /\ srcs = <<>> /\ fdRates = <<>>
    /\ gold = <<>> /\ macro = <<>>
    /\ holdings = <<>> /\ txns = <<>>
    /\ funds = StaleFunds
    /\ etfs = <<>>
    /\ schemeName = <<>>
    /\ inflight = <<>>

StartNavRun == \E max_schemes \in NavRunSizes : UpdateNavsOf(max_schemes)

FetchNext ==
    \E s \in DOMAIN inflight :
       \E details \in DetailsFor(Head(inflight[s].scheme_codes)) :
          FetchSchemeDetails(s, details)

UpdateNext == \E s \in 1..MaxInflight : UpdateSingleNav(s)

NextNavRuns ==
    \/ StartNavRun
    \/ FetchNext
    \/ UpdateNext
    \/ Tick(MaxStarveClock)

\* the beat schedule starts run after run, and a started run goes on to its
\* end
SpecNavRuns ==
    /\ InitNavRuns /\ [][NextNavRuns]_vars
    /\ WF_vars(StartNavRun) /\ WF_vars(FetchNext) /\ WF_vars(UpdateNext)

\* C28: under repeated NAV-update runs with automatic selection (at most
\* max_schemes active schemes not updated within the last hour, oldest
\* first) every active scheme whose fetch succeeds is eventually updated,
\* also when the fetches of other schemes fail on every run; and in each run
\* updated + failed equals the number of selected schemes.
C28_NoStarvation ==
    /\ <>(\E i \in DOMAIN funds :
             funds[i].scheme_code = GoodCode /\ funds[i].updated_at >= 0)
    /\ [][lastOp' = "update_single_nav" /\ resp'.status = "done" =>
             \E s \in DOMAIN inflight :
                resp'.updated + resp'.failed = inflight[s].selected]_vars

----------------------------------------------------------------------------
(* macro_data_service.py: what a refresh run hands to _store_indicator     *)

RefreshIndicatorNames ==
    {"usd_inr", "repo_rate", "reverse_repo_rate", "crr", "slr", "cpi_inflation"}

\* C29: every MacroIndicator row a macro refresh run writes has an indicator
\* name from {usd_inr, repo_rate, reverse_repo_rate, crr, slr, cpi_inflation}
\* and a numeric value: annotations of the result such as status "cached",
\* "stale" or "fallback" are never written as an indicator name or as a
\* value, in any branch of the run.
C29_OnlyIndicatorsWritten ==
    lastOp = "refresh_macro_indicators" =>
       /\ \A k \in DOMAIN resp.stored :
             /\ resp.stored[k].name \in RefreshIndicatorNames
             /\ resp.stored[k].value.t = "float"
       /\ \A i \in DOMAIN macro :
             macro[i].indicator_name \in RefreshIndicatorNames \cup AdminIndicators

----------------------------------------------------------------------------
(* routers/auth.py: UserCreate, UserUpdate, register and PATCH /auth/me,   *)
(* with the whole profile of a user                                        *)

MaxProfileMemCalls == 3   \* calls of the memory service in the profile runs
MaxProfileClock    == 1   \* days the profile specification runs for

PasswordMinLength == 8
FullNameMinLength == 2
FullNameMaxLength == 200
HorizonMin        == 1
HorizonMax        == 30
DefaultHorizon    == 5

RECURSIVE Repeated(_, _)
Repeated(text, n) ==
    IF n = 0 THEN ""
    ELSE LET half == Repeated(text, n \div 2)
         IN  IF n % 2 = 0 THEN half \o half ELSE half \o half \o text

\* bodies of POST /auth/register
RegisterBodies ==
    {[email |-> e, password |-> "password1", full_name |-> n,
      risk_tolerance |-> "moderate", investment_horizon_years |-> h,
      monthly_investment_capacity |-> None] :
        e \in Emails,
        n \in {"A", "Asha", Repeated("a", FullNameMaxLength),
               Repeated("a", FullNameMaxLength + 1)},
        h \in {HorizonMin - 1, HorizonMin, HorizonMax, HorizonMax + 1}}
    \cup {[email |-> "a@x.in", password |-> "short", full_name |-> "Asha",
           risk_tolerance |-> "moderate",
           investment_horizon_years |-> DefaultHorizon,
           monthly_investment_capacity |-> None]}

\* the validation of UserCreate
UserCreateValid(user_data) ==
    /\ Len(user_data.password) >= PasswordMinLength
    /\ Len(user_data.full_name) >= FullNameMinLength
    /\ Len(user_data.full_name) <= FullNameMaxLength
    /\ user_data.risk_tolerance \in Risks
    /\ user_data.investment_horizon_years >= HorizonMin
    /\ user_data.investment_horizon_years <= HorizonMax

\* User(...) as register creates it
ProfileUser(id, user_data) ==
    [id |-> id, email |-> user_data.email,
     hashed_password |-> get_password_hash(user_data.password),
     full_name |-> user_data.full_name,
     risk_tolerance |-> user_data.risk_tolerance,
     investment_horizon_years |-> user_data.investment_horizon_years,
     monthly_investment_capacity |-> user_data.monthly_investment_capacity,
     preferences |-> "{}", is_active |-> TRUE]

\* POST /auth/register with the whole body: 422 on a body UserCreate
\* refuses, 400 on a known address
RegisterUser(user_data) ==
    /\ lastOp' = "register"
    /\ IF ~ UserCreateValid(user_data)
       THEN /\ resp' = [status |-> 422, body |-> user_data]
            /\ UNCHANGED apiVars
       ELSE IF UserByEmail(user_data.email) # None
       THEN /\ resp' = [status |-> 400, body |-> user_data]
            /\ UNCHANGED apiVars
       ELSE LET user  == ProfileUser(Len(users) + 1, user_data)
                token == create_access_token(user.id)
            IN  /\ users' = Append(users, user)
                /\ memCalls' = memCalls + 1
                /\ issued' = issued \cup {[token |-> token, uid |-> user.id]}
                /\ resp' = [status |-> 200, body |-> user_data]
                /\ UNCHANGED plans
    /\ UNCHANGED <<now, BackgroundTables>>

UserUpdateFields ==
    {"full_name", "risk_tolerance", "investment_horizon_years",
     "monthly_investment_capacity", "preferences"}

\* bodies of PATCH /auth/me: a JSON object with some of the keys
PatchBodies ==
    {<<>>,
     [full_name |-> "A"],
     [full_name |-> "Asha B", risk_tolerance |-> "high"],
     [investment_horizon_years |-> HorizonMin - 1],
     [investment_horizon_years |-> 10, monthly_investment_capacity |-> Some(5000)],
     [investment_horizon_years |-> HorizonMax + 1],
     [preferences |-> "{'avoid': ['crypto']}"],
     [email |-> "evil@x.in", hashed_password |-> <<"plain", "x">>,
      is_active |-> FALSE, risk_tolerance |-> "high"]}

\* UserUpdate(**body).model_dump(exclude_unset=True): the fields of the model
\* that the body set; UserUpdate puts no bound on any of them
ModelDump(body) ==
    [f \in DOMAIN body \cap UserUpdateFields |-> body[f]]

\* for field, value in update_dict.items(): setattr(current_user, field, value)
SetAttrs(user, update_dict) ==
    [f \in DOMAIN user |->
        IF f \in DOMAIN update_dict THEN update_dict[f] ELSE user[f]]

\* the bearer tokens of the profile runs: the ones the API handed out and
\* tokens signed with the secret whose subject is the id as a string
ProfileTokens ==
    {i.token : i \in issued}
    \cup {[sub |-> SubStr(u), exp |-> now, key |-> SecretKey] : u \in 1..MaxUsers}

\* PATCH /auth/me
UpdateMe(token, body) ==
    LET cur         == get_current_user(token)
        update_dict == ModelDump(body)
    IN  /\ lastOp' = "update_me"
        /\ IF cur.user = None
           THEN /\ resp' = [status |-> cur.status, body |-> body]
                /\ UNCHANGED <<users, memCalls>>
           ELSE /\ users' = [i \in DOMAIN users |->
                               IF users[i].id = cur.user[1].id
                               THEN SetAttrs(users[i], update_dict)
                               ELSE users[i]]
                /\ memCalls' = IF DOMAIN update_dict # {} THEN memCalls + 1
                               ELSE memCalls
                /\ resp' = [status |-> 200, body |-> body]
        /\ UNCHANGED <<now, issued, plans, BackgroundTables>>

InitProfile ==
    /\ now = 0 /\ lastOp = "init" /\ resp = [status |-> 0]
    /\ ApiStart
    /\ BackgroundStart

NextProfile ==
    \/ \E user_data \in RegisterBodies :
          RegisterUser(user_data) /\ memCalls' <= MaxProfileMemCalls
    \/ \E token \in ProfileTokens, body \in PatchBodies :
          UpdateMe(token, body) /\ memCalls' <= MaxProfileMemCalls
    \/ Tick(MaxProfileClock)

SpecProfile == InitProfile /\ [][NextProfile]_vars

\* C30: the profile bounds enforced at registration hold in every reachable
\* state: after any sequence of register and PATCH requests every user has
\* an investment horizon between 1 and 30 years and a full name of 2 to 200
\* characters; a PATCH never changes the email, the password hash or the
\* active flag of a user.
C30_ProfileBoundsKept ==
    [][/\ \A i \in DOMAIN users' :
             /\ users'[i].investment_horizon_years >= HorizonMin
             /\ users'[i].investment_horizon_years <= HorizonMax
             /\ Len(users'[i].full_name) >= FullNameMinLength
             /\ Len(users'[i].full_name) <= FullNameMaxLength
       /\ lastOp' = "update_me" =>
             /\ DOMAIN users' = DOMAIN users
             /\ \A i \in DOMAIN users :
                   /\ users'[i].email = users[i].email
                   /\ users'[i].hashed_password = users[i].hashed_password
                   /\ users'[i].is_active = users[i].is_active]_vars

====
